---- MODULE Spec2Model ----
(***************************************************************************)
(* Indicator configuration (streamlit_project/indicator_config.py) and the *)
(* indicator orchestrator FinancialDataFetcher.get_technical_indicators    *)
(* (streamlit_project/data_fetcher.py), as one script run of app.py:       *)
(* a configuration is built, its active indicators are summarised, the     *)
(* indicators are computed for the fetched price data, the script reruns.  *)
(*                                                                         *)
(* Data frames are abstracted to their length and their set of columns;    *)
(* an indicator output is abstracted to the fact that a frame was built.   *)
(* Calls to the external provider (obb.technical) and the price fetch      *)
(* are inputs: every outcome they can have is explored.                    *)
(***************************************************************************)
EXTENDS Integers, Sequences, FiniteSets, TLC

VARIABLES
    obb_available,  \* FinancialDataFetcher.obb_available
    config,         \* the IndicatorConfig held by the caller (session configuration)
    origin,         \* how `config` was built: the operation and, for from_preset, the name
    pc,             \* position of the script run: "sidebar", "summary", "computed"
    active,         \* value returned by the last config.get_active_indicators() of the run
    price_data,     \* the frame get_stock_price_data returned to the running pass
    result,         \* what get_technical_indicators returned, with the pass's trace
    table,          \* the IndicatorConfig instances of the presets dictionary last built
    data_after,     \* the frame of the pass as the indicator functions left it
    bars,           \* price series handed to an indicator function called on its own
    output,         \* what that indicator function returned
    symbols,        \* the list handed to get_many_price_data
    market,         \* what get_stock_price_data gives for each symbol while the call runs
    many            \* what get_many_price_data returned

\* The script run of the dashboard.
appvars == <<obb_available, config, origin, pc, active, price_data, result,
             table, data_after>>

\* A direct call of one indicator function.
libvars == <<bars, output>>

\* A call of get_many_price_data.
fetchvars == <<symbols, market, many>>

vars == <<obb_available, config, origin, pc, active, price_data, result,
          table, data_after, bars, output, symbols, market, many>>

(***************************************************************************)
(* Bounds of the exploration.                                              *)
(***************************************************************************)
\* Largest number of indicator families given keyword arguments in one
\* IndicatorConfig(...) call of the caller (presets are not limited by it).
MaxFamilies == 1

\* Longest price series handed to an indicator function called on its own.
MaxLen == 4

\* Largest window, span or length such a call is given.
MaxWindow == 2

(***************************************************************************)
(* IndicatorConfig: the dataclass and its defaults.                        *)
(***************************************************************************)
\* Optional[List[int]]: None, or a list.
None == [some |-> FALSE, val |-> <<>>]

List(s) == [some |-> TRUE, val |-> s]

\* `if self.sma is not None` in place of `if self.sma`.
Truthy_is_not_None(l) == l.some

\* Python truth value of an Optional[List[int]]: None and [] are false.
Truthy(l) == l.some /\ Len(l.val) > 0

\* Field defaults of the dataclass. bb_std and kel_mult are floats, kept in
\* tenths (2.0 -> 20, 1.5 -> 15).
DefaultConfig ==
    [ sma |-> None, ema |-> None,
      ichimoku |-> FALSE, ichimoku_params |-> <<9, 26, 52>>,
      adx |-> FALSE, adx_length |-> 14,
      dmi |-> FALSE, dmi_length |-> 14,
      rsi |-> FALSE, rsi_length |-> 14,
      macd |-> FALSE, macd_fast |-> 12, macd_slow |-> 26, macd_signal |-> 9,
      stochastic |-> FALSE, stoch_k |-> 14, stoch_d |-> 3, stoch_smooth_k |-> 3,
      atr |-> FALSE, atr_length |-> 14,
      bbands |-> FALSE, bb_length |-> 20, bb_std |-> 20,
      keltner |-> FALSE, kel_length |-> 20, kel_mult |-> 15,
      obv |-> FALSE,
      mfi |-> FALSE, mfi_length |-> 14,
      vwap |-> FALSE,
      volume_profile |-> FALSE, volume_profile_bins |-> 50,
      advance_decline |-> FALSE,
      percent_above_ma |-> FALSE, breadth_ma_length |-> 50 ]

\* get_preset_names()
PresetNames == {"minimal", "trend_follower", "mean_reversion", "intraday", "comprehensive"}

\* The presets dictionary of from_preset, built anew by every call.
presets(preset_name) ==
    CASE preset_name = "minimal" ->
            [DefaultConfig EXCEPT !.sma = List(<<20, 50>>), !.rsi = TRUE, !.atr = TRUE]
      [] preset_name = "trend_follower" ->
            [DefaultConfig EXCEPT !.ema = List(<<20, 50, 200>>), !.adx = TRUE, !.macd = TRUE]
      [] preset_name = "mean_reversion" ->
            [DefaultConfig EXCEPT !.bbands = TRUE, !.bb_length = 20, !.bb_std = 20,
                                  !.stochastic = TRUE, !.stoch_k = 14, !.stoch_d = 3,
                                  !.stoch_smooth_k = 3, !.rsi = TRUE, !.rsi_length = 14]
      [] preset_name = "intraday" ->
            [DefaultConfig EXCEPT !.vwap = TRUE, !.obv = TRUE, !.keltner = TRUE,
                                  !.kel_length = 20, !.kel_mult = 15,
                                  !.adx = TRUE, !.adx_length = 14]
      [] preset_name = "comprehensive" ->
            [DefaultConfig EXCEPT !.sma = List(<<20, 50, 200>>), !.ema = List(<<12, 26>>),
                                  !.rsi = TRUE, !.macd = TRUE, !.bbands = TRUE,
                                  !.atr = TRUE, !.obv = TRUE, !.vwap = TRUE]

\* The instances the dictionary literal of from_preset creates.
FreshPresets == [n \in PresetNames |-> presets(n)]

\* Variant of the dictionary: built once and kept, every call looks up the
\* same instances.
presets_kept == table

\* presets = {...}: a local of from_preset, evaluated anew by every call.
presets_dict == FreshPresets

\* Variant of from_preset: an unknown name falls back to the first preset,
\* presets.get(preset_name, presets['minimal']).
from_preset_first(preset_name) ==
    IF preset_name \in PresetNames THEN presets(preset_name) ELSE presets("minimal")

\* IndicatorConfig.from_preset: presets.get(preset_name, cls())
from_preset(preset_name) ==
    IF preset_name \in PresetNames THEN presets_dict[preset_name] ELSE DefaultConfig

\* One entry of the dictionary get_active_indicators returns.
Entry(name, params) == [name |-> name, params |-> params]

Opt(cond, name, params) == IF cond THEN <<Entry(name, params)>> ELSE <<>>

\* Variant of get_active_indicators that inserts the keys in dependency
\* order: atr before dmi before adx.
get_active_indicators_dependency_order(self) ==
       Opt(Truthy(self.sma), "sma", self.sma.val)
    \o Opt(Truthy(self.ema), "ema", self.ema.val)
    \o Opt(self.ichimoku, "ichimoku", self.ichimoku_params)
    \o Opt(self.atr, "atr", self.atr_length)
    \o Opt(self.dmi, "dmi", self.dmi_length)
    \o Opt(self.adx, "adx", self.adx_length)
    \o Opt(self.rsi, "rsi", self.rsi_length)
    \o Opt(self.macd, "macd", <<self.macd_fast, self.macd_slow, self.macd_signal>>)
    \o Opt(self.stochastic, "stochastic", <<self.stoch_k, self.stoch_d, self.stoch_smooth_k>>)
    \o Opt(self.bbands, "bbands", <<self.bb_length, self.bb_std>>)
    \o Opt(self.keltner, "keltner", <<self.kel_length, self.kel_mult>>)
    \o Opt(self.obv, "obv", TRUE)
    \o Opt(self.mfi, "mfi", self.mfi_length)
    \o Opt(self.vwap, "vwap", TRUE)
    \o Opt(self.volume_profile, "volume_profile", self.volume_profile_bins)
    \o Opt(self.advance_decline, "advance_decline", TRUE)
    \o Opt(self.percent_above_ma, "percent_above_ma", self.breadth_ma_length)

\* IndicatorConfig.get_active_indicators: the dictionary, in insertion order.
get_active_indicators(self) ==
       Opt(Truthy(self.sma), "sma", self.sma.val)
    \o Opt(Truthy(self.ema), "ema", self.ema.val)
    \o Opt(self.ichimoku, "ichimoku", self.ichimoku_params)
    \o Opt(self.adx, "adx", self.adx_length)
    \o Opt(self.dmi, "dmi", self.dmi_length)
    \o Opt(self.rsi, "rsi", self.rsi_length)
    \o Opt(self.macd, "macd", <<self.macd_fast, self.macd_slow, self.macd_signal>>)
    \o Opt(self.stochastic, "stochastic", <<self.stoch_k, self.stoch_d, self.stoch_smooth_k>>)
    \o Opt(self.atr, "atr", self.atr_length)
    \o Opt(self.bbands, "bbands", <<self.bb_length, self.bb_std>>)
    \o Opt(self.keltner, "keltner", <<self.kel_length, self.kel_mult>>)
    \o Opt(self.obv, "obv", TRUE)
    \o Opt(self.mfi, "mfi", self.mfi_length)
    \o Opt(self.vwap, "vwap", TRUE)
    \o Opt(self.volume_profile, "volume_profile", self.volume_profile_bins)
    \o Opt(self.advance_decline, "advance_decline", TRUE)
    \o Opt(self.percent_above_ma, "percent_above_ma", self.breadth_ma_length)

(***************************************************************************)
(* Price data: what get_stock_price_data hands to the pass.                *)
(***************************************************************************)
Columns == {"open", "high", "low", "close", "volume"}

\* Frame lengths explored: 0 (empty), 1, and around every length threshold
\* the configurations explored can ask for, up to the 300 rows of a long
\* daily series.
Lengths == {0, 1, 4, 5, 6, 12, 14, 15, 17, 20, 26, 35, 50, 52, 200, 300}

\* A pandas DataFrame, or None.
NoFrame == [isNone |-> TRUE, n |-> 0, cols |-> {}]

Frame(n, cols) == [isNone |-> FALSE, n |-> n, cols |-> cols]

DataFrames == {Frame(n, cols) : n \in Lengths, cols \in SUBSET Columns}

\* DataFrame.empty: no rows, or no columns.
IsEmpty(data) == data.n = 0 \/ data.cols = {}

Has(data, cols) == cols \subseteq data.cols

\* FinancialDataFetcher.get_stock_price_data: None when the provider is not
\* importable or the fetch raised, else the frame the provider returned.
\* `fetched` is the provider's answer (NoFrame: the fetch raised).
get_stock_price_data(available, fetched) ==
    IF ~available THEN NoFrame ELSE fetched

(***************************************************************************)
(* pandas / numpy operations the local formulas rest on.                   *)
(***************************************************************************)
\* Series.rolling(window=w): ValueError for a negative window.
RollingOk(window) == window >= 0

\* Series.ewm(span=s): ValueError unless span >= 1.
EwmOk(span) == span >= 1

\* np.histogram(bins=b): ValueError unless bins >= 1.
HistogramOk(bins) == bins >= 1

(***************************************************************************)
(* The indicator functions. Each returns "frame" (a DataFrame), "none"     *)
(* (None) or "raise" (an exception leaves the function). `p` is what the   *)
(* provider call of the function does: "raise", or "frame".                *)
(***************************************************************************)
ProviderOutcomes == {"frame", "raise"}

\* obb.technical.atr: may also answer with a frame that has an 'atr' column.
AtrProviderOutcomes == {"frame", "frame_atr", "raise"}

\* try: provider; except: local formula, which raises when `localOk` fails.
ProviderElseLocal(p, localOk) ==
    IF p # "raise" THEN "frame" ELSE IF localOk THEN "frame" ELSE "raise"

_compute_sma(data, window, p) ==
    ProviderElseLocal(p, Has(data, {"close"}) /\ RollingOk(window))

_compute_ema(data, window, p) ==
    ProviderElseLocal(p, Has(data, {"close"}) /\ EwmOk(window))

_compute_rsi(data, window, p) ==
    ProviderElseLocal(p, Has(data, {"close"}) /\ RollingOk(window))

_compute_macd(data, fast, slow, signal, p) ==
    ProviderElseLocal(p, Has(data, {"close"}) /\ EwmOk(fast) /\ EwmOk(slow) /\ EwmOk(signal))

_compute_stochastic(data, k, d, smooth_k, p) ==
    ProviderElseLocal(p, Has(data, {"low", "high", "close"})
                         /\ RollingOk(k) /\ RollingOk(smooth_k) /\ RollingOk(d))

_compute_atr(data, window, p) ==
    ProviderElseLocal(p, Has(data, {"high", "low", "close"}) /\ RollingOk(window))

\* 'atr' in atr_data.columns, for a frame _compute_atr returned: the local
\* formula names its column 'atr', the provider's frame may or may not.
HasAtrColumn(p) == p \in {"frame_atr", "raise"}

_compute_bollinger_bands(data, window, std_dev, p) ==
    ProviderElseLocal(p, Has(data, {"close"}) /\ RollingOk(window))

\* `pa` is what the provider does for the nested _compute_atr call.
_compute_keltner_channels(data, window, multiplier, p, pa) ==
    IF p # "raise" THEN "frame"
    ELSE IF ~(Has(data, {"close"}) /\ EwmOk(window)) THEN "raise"
    ELSE IF _compute_atr(data, window, pa) = "raise" THEN "raise"
    ELSE IF HasAtrColumn(pa) THEN "frame"
    ELSE "none"

\* The whole body is inside try/except: None instead of any exception.
_compute_dmi(data, window, pa) ==
    IF ~Has(data, {"high", "low"}) THEN "none"
    ELSE IF _compute_atr(data, window, pa) = "raise" THEN "none"
    ELSE IF ~HasAtrColumn(pa) THEN "none"
    ELSE IF ~RollingOk(window) THEN "none"
    ELSE "frame"

_compute_adx(data, window, p, pa) ==
    IF p # "raise" THEN "frame"
    ELSE IF _compute_dmi(data, window, pa) = "none" THEN "none"
    ELSE IF ~RollingOk(window) THEN "raise"
    ELSE "frame"

_compute_ichimoku(data, conversion, base, span_b) ==
    IF Has(data, {"high", "low", "close"})
       /\ RollingOk(conversion) /\ RollingOk(base) /\ RollingOk(span_b)
    THEN "frame" ELSE "none"

_compute_obv(data, p) ==
    ProviderElseLocal(p, Has(data, {"close", "volume"}))

_compute_mfi(data, window) ==
    IF Has(data, {"high", "low", "close", "volume"}) /\ RollingOk(window)
    THEN "frame" ELSE "none"

_compute_vwap(data) ==
    IF Has(data, {"high", "low", "close", "volume"}) THEN "frame" ELSE "none"

_compute_volume_profile(data, bins) ==
    IF Has(data, {"close", "volume"}) /\ HistogramOk(bins) THEN "frame" ELSE "none"

(***************************************************************************)
(* The orchestrator: FinancialDataFetcher.get_technical_indicators.        *)
(* A pass carries the `indicators` dictionary, the diagnostics shown with  *)
(* st.info (indicator names, in order) and the trace of the indicator      *)
(* functions it called: the indicator name of the branch, the key the      *)
(* output is stored under, and what the call did.                          *)
(***************************************************************************)
EmptyPass == [indicators |-> <<>>, diagnostics |-> <<>>, calls |-> <<>>]

\* Variant of the key: the family name alone, indicators['sma'].
PeriodKey_family(family, window) == family

\* f'sma_{window}', f'ema_{window}'
PeriodKey(family, window) == family \o "_" \o ToString(window)

\* indicators[key] = result
Put(indicators, key) ==
    [k \in (DOMAIN indicators) \cup {key} |-> "DataFrame"]

\* Variant without the test: indicators[key] = result also for a None result.
Store_unconditional(st, name, key, out) ==
    [st EXCEPT !.calls = Append(@, [name |-> name, key |-> key, out |-> out]),
               !.indicators = IF out # "raise" THEN Put(@, key) ELSE @]

\* result = _self._compute_x(...); if result is not None: indicators[key] = result
Store(st, name, key, out) ==
    [st EXCEPT !.calls = Append(@, [name |-> name, key |-> key, out |-> out]),
               !.indicators = IF out = "frame" THEN Put(@, key) ELSE @]

\* The length and column preconditions of the dispatch branches.
pre_period(data, window) == data.n >= window

\* Variant of the RSI precondition without the row diff() consumes.
pre_rsi_window(data, params) == data.n >= params

pre_rsi(data, params) == data.n >= params + 1

pre_macd(data, params) == data.n >= params[2] + params[3]

pre_stochastic(data, params) == data.n >= params[1] + params[2]

pre_length(data, params) == data.n >= params

pre_pair(data, params) == data.n >= params[1]

Max3(a, b, c) ==
    IF a >= b /\ a >= c THEN a ELSE IF b >= c THEN b ELSE c

pre_ichimoku(data, params) == data.n >= Max3(params[1], params[2], params[3])

pre_volume(data) == "volume" \in data.cols

pre_mfi(data, params) == "volume" \in data.cols /\ data.n >= params

\* A branch that calls one indicator function: the passes it can end in, each
\* with `exc`, whether an exception left the branch.
Branch(st, key, pre, outs) ==
    IF ~pre THEN {[st |-> st, exc |-> FALSE]}
    ELSE {[st |-> Store(st, key, key, o), exc |-> (o = "raise")] : o \in outs}

\* for window in params: ... of the 'sma' and 'ema' branches, from index i on.
\* An exception leaves the loop: the periods after it are not reached.
RECURSIVE PeriodLoop(_, _, _, _, _)
PeriodLoop(st, family, params, i, data) ==
    IF i > Len(params) THEN {[st |-> st, exc |-> FALSE]}
    ELSE LET window == params[i]
             outs == IF family = "sma"
                     THEN {_compute_sma(data, window, p) : p \in ProviderOutcomes}
                     ELSE {_compute_ema(data, window, p) : p \in ProviderOutcomes}
         IN  IF pre_period(data, window)
             THEN UNION { IF o = "raise"
                          THEN {[st |-> Store(st, family, PeriodKey(family, window), o),
                                 exc |-> TRUE]}
                          ELSE PeriodLoop(Store(st, family, PeriodKey(family, window), o),
                                          family, params, i + 1, data)
                          : o \in outs }
             ELSE PeriodLoop(st, family, params, i + 1, data)

\* The if/elif chain on indicator_name (the body of the inner try).
Dispatch(st, indicator_name, params, data) ==
    CASE indicator_name \in {"sma", "ema"} ->
            PeriodLoop(st, indicator_name, params, 1, data)
      [] indicator_name = "rsi" ->
            Branch(st, "rsi", pre_rsi(data, params),
                   {_compute_rsi(data, params, p) : p \in ProviderOutcomes})
      [] indicator_name = "macd" ->
            Branch(st, "macd", pre_macd(data, params),
                   {_compute_macd(data, params[1], params[2], params[3], p)
                      : p \in ProviderOutcomes})
      [] indicator_name = "stochastic" ->
            Branch(st, "stochastic", pre_stochastic(data, params),
                   {_compute_stochastic(data, params[1], params[2], params[3], p)
                      : p \in ProviderOutcomes})
      [] indicator_name = "atr" ->
            Branch(st, "atr", pre_length(data, params),
                   {_compute_atr(data, params, p) : p \in AtrProviderOutcomes})
      [] indicator_name = "bbands" ->
            Branch(st, "bbands", pre_pair(data, params),
                   {_compute_bollinger_bands(data, params[1], params[2], p)
                      : p \in ProviderOutcomes})
      [] indicator_name = "keltner" ->
            Branch(st, "keltner", pre_pair(data, params),
                   {_compute_keltner_channels(data, params[1], params[2], p, pa)
                      : p \in ProviderOutcomes, pa \in AtrProviderOutcomes})
      [] indicator_name = "adx" ->
            Branch(st, "adx", pre_length(data, params),
                   {_compute_adx(data, params, p, pa)
                      : p \in ProviderOutcomes, pa \in AtrProviderOutcomes})
      [] indicator_name = "dmi" ->
            Branch(st, "dmi", pre_length(data, params),
                   {_compute_dmi(data, params, pa) : pa \in AtrProviderOutcomes})
      [] indicator_name = "ichimoku" ->
            Branch(st, "ichimoku", pre_ichimoku(data, params),
                   {_compute_ichimoku(data, params[1], params[2], params[3])})
      [] indicator_name = "obv" ->
            Branch(st, "obv", pre_volume(data),
                   {_compute_obv(data, p) : p \in ProviderOutcomes})
      [] indicator_name = "mfi" ->
            Branch(st, "mfi", pre_mfi(data, params), {_compute_mfi(data, params)})
      [] indicator_name = "vwap" ->
            Branch(st, "vwap", pre_volume(data), {_compute_vwap(data)})
      [] indicator_name = "volume_profile" ->
            Branch(st, "volume_profile", pre_volume(data),
                   {_compute_volume_profile(data, params)})
      [] OTHER -> {[st |-> st, exc |-> FALSE]}

\* The indicator names the if/elif chain compares indicator_name with.
DispatchBranches ==
    {"sma", "ema", "rsi", "macd", "stochastic", "atr", "bbands", "keltner",
     "adx", "dmi", "ichimoku", "obv", "mfi", "vwap", "volume_profile"}

\* Variant of the handler: the diagnostic is shown and the exception raised
\* again.
OnIndicatorError_reraise(r, indicator_name) ==
    [st |-> [r.st EXCEPT !.diagnostics = Append(@, indicator_name)], exc |-> TRUE]

\* except Exception as e: st.info(f"Could not compute {indicator_name}: ..."); continue
OnIndicatorError(r, indicator_name) ==
    [st |-> [r.st EXCEPT !.diagnostics = Append(@, indicator_name)], exc |-> FALSE]

\* One round of the for loop: the inner try around the dispatch.
TryIndicator(st, item, data) ==
    { IF r.exc THEN OnIndicatorError(r, item.name) ELSE r
      : r \in Dispatch(st, item.name, item.params, data) }

\* for indicator_name, params in active_indicators.items(), from index i on.
\* A round that ends with an exception ends the loop.
RECURSIVE ForEachIndicator(_, _, _, _)
ForEachIndicator(st, items, i, data) ==
    IF i > Len(items) THEN {[st |-> st, exc |-> FALSE]}
    ELSE UNION { IF r.exc THEN {r} ELSE ForEachIndicator(r.st, items, i + 1, data)
                 : r \in TryIndicator(st, items[i], data) }

\* What the function hands back: ret is "dict" (the indicators dictionary),
\* "None" or "raise" (an exception reached the caller).
Returned(ret, st) ==
    [ret |-> ret, indicators |-> st.indicators,
     diagnostics |-> st.diagnostics, calls |-> st.calls]

\* Variant of the early return: return {} (the empty dictionary).
OnNoData_empty_dict == Returned("dict", EmptyPass)

\* if price_data is None or price_data.empty: return None
OnNoData == Returned("None", EmptyPass)

\* except Exception as e: st.error(...); return None  (the outer try)
OnError(r) == Returned("None", EmptyPass)

\* Variant of the loop without the inner try: an exception ends the pass.
RECURSIVE ForEachIndicator_no_try(_, _, _, _)
ForEachIndicator_no_try(st, items, i, data) ==
    IF i > Len(items) THEN {[st |-> st, exc |-> FALSE]}
    ELSE UNION { IF r.exc THEN {r} ELSE ForEachIndicator_no_try(r.st, items, i + 1, data)
                 : r \in Dispatch(st, items[i].name, items[i].params, data) }

\* Variant of get_technical_indicators without the try statements: an
\* exception of an indicator function reaches the caller.
get_technical_indicators_no_try(available, cfg, data) ==
    IF ~available THEN {Returned("None", EmptyPass)}
    ELSE IF data.isNone \/ IsEmpty(data) THEN {OnNoData}
    ELSE { IF r.exc THEN Returned("raise", r.st) ELSE Returned("dict", r.st)
           : r \in ForEachIndicator_no_try(EmptyPass, get_active_indicators(cfg), 1, data) }

\* get_technical_indicators(symbol, period, config) with the provider's
\* answers: the set of values it can return for this frame.
get_technical_indicators(available, cfg, data) ==
    IF ~available THEN {Returned("None", EmptyPass)}
    ELSE IF data.isNone \/ IsEmpty(data) THEN {OnNoData}
    ELSE { IF r.exc THEN OnError(r) ELSE Returned("dict", r.st)
           : r \in ForEachIndicator(EmptyPass, get_active_indicators(cfg), 1, data) }

(***************************************************************************)
(* Configurations the caller builds with IndicatorConfig(...).             *)
(***************************************************************************)
\* The keyword arguments explored for one indicator family: the family
\* switched on with its default parameters (variant 1), switched on with
\* other parameters (variant 2), or, for rsi and macd, left off with other
\* parameters (variant 3). A period list may hold a period longer than every
\* short frame, and a period that is not positive.
FamilyKwargs ==
    [family : {"sma", "ema"}, variant : {1, 2, 3}]
    \cup [family : {"ichimoku", "adx", "dmi", "rsi", "macd", "stochastic", "atr",
                    "bbands", "keltner", "mfi", "volume_profile", "percent_above_ma"},
          variant : {1, 2}]
    \cup [family : {"rsi", "macd"}, variant : {3}]
    \cup [family : {"obv", "vwap", "advance_decline"}, variant : {1}]

\* dataclasses.replace(c, **kwargs) for the keyword arguments `kw` names.
WithKwargs(c, kw) ==
    LET on == kw.variant # 3
        alt == kw.variant # 1
    IN CASE kw.family = "sma" ->
              [c EXCEPT !.sma = CASE kw.variant = 1 -> List(<<20, 50>>)
                                  [] kw.variant = 2 -> List(<<200, 0, 20>>)
                                  [] OTHER -> List(<<>>)]
         [] kw.family = "ema" ->
              [c EXCEPT !.ema = CASE kw.variant = 1 -> List(<<20, 50>>)
                                  [] kw.variant = 2 -> List(<<200, 0, 20>>)
                                  [] OTHER -> List(<<>>)]
         [] kw.family = "ichimoku" ->
              [c EXCEPT !.ichimoku = on,
                        !.ichimoku_params = IF alt THEN <<5, 6, 1>> ELSE @]
         [] kw.family = "adx" ->
              [c EXCEPT !.adx = on, !.adx_length = IF alt THEN 5 ELSE @]
         [] kw.family = "dmi" ->
              [c EXCEPT !.dmi = on, !.dmi_length = IF alt THEN 5 ELSE @]
         [] kw.family = "rsi" ->
              [c EXCEPT !.rsi = on, !.rsi_length = IF alt THEN 5 ELSE @]
         [] kw.family = "macd" ->
              [c EXCEPT !.macd = on, !.macd_fast = IF alt THEN 5 ELSE @,
                        !.macd_slow = IF alt THEN 15 ELSE @,
                        !.macd_signal = IF alt THEN 5 ELSE @]
         [] kw.family = "stochastic" ->
              [c EXCEPT !.stochastic = on, !.stoch_k = IF alt THEN 5 ELSE @,
                        !.stoch_d = IF alt THEN 1 ELSE @,
                        !.stoch_smooth_k = IF alt THEN 2 ELSE @]
         [] kw.family = "atr" ->
              [c EXCEPT !.atr = on, !.atr_length = IF alt THEN 5 ELSE @]
         [] kw.family = "bbands" ->
              [c EXCEPT !.bbands = on, !.bb_length = IF alt THEN 5 ELSE @,
                        !.bb_std = IF alt THEN 10 ELSE @]
         [] kw.family = "keltner" ->
              [c EXCEPT !.keltner = on, !.kel_length = IF alt THEN 5 ELSE @,
                        !.kel_mult = IF alt THEN 30 ELSE @]
         [] kw.family = "obv" -> [c EXCEPT !.obv = on]
         [] kw.family = "mfi" ->
              [c EXCEPT !.mfi = on, !.mfi_length = IF alt THEN 5 ELSE @]
         [] kw.family = "vwap" -> [c EXCEPT !.vwap = on]
         [] kw.family = "volume_profile" ->
              [c EXCEPT !.volume_profile = on,
                        !.volume_profile_bins = IF alt THEN 0 ELSE @]
         [] kw.family = "advance_decline" -> [c EXCEPT !.advance_decline = on]
         [] kw.family = "percent_above_ma" ->
              [c EXCEPT !.percent_above_ma = on,
                        !.breadth_ma_length = IF alt THEN 200 ELSE @]
         [] OTHER -> c

\* The configurations IndicatorConfig(...) gives with keyword arguments for
\* at most k families.
RECURSIVE ConfigsUpTo(_)
ConfigsUpTo(k) ==
    IF k = 0 THEN {DefaultConfig}
    ELSE LET less == ConfigsUpTo(k - 1)
         IN  less \cup {WithKwargs(c, kw) : c \in less, kw \in FamilyKwargs}

(***************************************************************************)
(* What a pass leaves of its inputs.                                       *)
(***************************************************************************)
\* Variant: the function keeps its result in a column of its argument,
\* data[indicator_name] = ...
WritesTo_own_column(indicator_name) == {indicator_name}

\* The columns the function of the indicator assigns into the frame it is
\* given: the _compute_ functions only read `data`.
WritesTo(indicator_name) == {}

\* The frame after the calls of the pass, from call i on.
RECURSIVE AfterCalls(_, _, _)
AfterCalls(data, calls, i) ==
    IF i > Len(calls) THEN data
    ELSE AfterCalls([data EXCEPT !.cols = @ \cup WritesTo(calls[i].name)], calls, i + 1)

(***************************************************************************)
(* The script run.                                                         *)
(***************************************************************************)
NotRun == Returned("pending", EmptyPass)

\* No indicator function has been called on its own.
NoOutput == [fn |-> "none"]

\* get_many_price_data has not been called.
NoMarket == <<>>

NoMany == [called |-> FALSE, results |-> <<>>, warnings |-> <<>>]

Init ==
    /\ obb_available \in BOOLEAN
    /\ config = DefaultConfig
    /\ origin = [op |-> "IndicatorConfig", name |-> ""]
    /\ pc = "sidebar"
    /\ active = <<>>
    /\ price_data = NoFrame
    /\ result = NotRun
    /\ table = FreshPresets
    /\ data_after = NoFrame
    /\ bars = <<>>
    /\ output = NoOutput
    /\ symbols = <<>>
    /\ market = NoMarket
    /\ many = NoMany

\* A preset button: config = IndicatorConfig.from_preset(preset). The names
\* tried include names that are no preset. The configuration returned is the
\* instance of the dictionary the call looked up.
FromPreset ==
    /\ pc = "sidebar"
    /\ \E name \in PresetNames \cup {"nonexistent", "Minimal", ""} :
          /\ config' = from_preset(name)
          /\ origin' = [op |-> "from_preset", name |-> name]
    /\ table' = presets_dict
    /\ UNCHANGED <<obb_available, pc, active, price_data, result, data_after>>
    /\ UNCHANGED <<libvars, fetchvars>>

\* The caller builds a configuration: IndicatorConfig(**kwargs). Nothing
\* refers any longer to the dictionary an earlier from_preset call built.
NewConfig ==
    /\ pc = "sidebar"
    /\ config' \in ConfigsUpTo(MaxFamilies)
    /\ origin' = [op |-> "IndicatorConfig", name |-> ""]
    /\ table' = FreshPresets
    /\ UNCHANGED <<obb_available, pc, active, price_data, result, data_after>>
    /\ UNCHANGED <<libvars, fetchvars>>

\* What the user changes in one pass of the sidebar: the periods chosen in
\* the SMA multiselect, or the ADX, DMI, ATR and Keltner checkboxes ticked.
SidebarEdits == {"sma_periods", "checkboxes"}

\* The assignments create_indicator_sidebar makes to the fields of the
\* session configuration when the user changed the widgets of `edit` (the
\* other widgets give back the values the configuration already has).
Assign(c, edit) ==
    CASE edit = "sma_periods" -> [c EXCEPT !.sma = List(<<5, 10>>)]
      [] edit = "checkboxes" -> [c EXCEPT !.adx = TRUE, !.dmi = TRUE,
                                          !.dmi_length = c.adx_length,
                                          !.atr = TRUE, !.keltner = TRUE]

\* A sidebar pass over the session configuration (the default one, one a
\* preset button installed, or one edited before): the fields are assigned
\* in place, so an instance that came from the presets dictionary changes
\* with them.
SidebarEdit ==
    /\ pc = "sidebar"
    /\ \/ origin.op = "edited"
       \/ origin.op = "from_preset" /\ origin.name \in PresetNames
       \/ origin.op = "IndicatorConfig" /\ config = DefaultConfig
    /\ \E edit \in SidebarEdits :
          /\ config' = Assign(config, edit)
          /\ table' = IF origin.op \in {"from_preset", "edited"}
                         /\ origin.name \in PresetNames
                      THEN [table EXCEPT ![origin.name] = Assign(config, edit)]
                      ELSE table
    /\ origin' = [op |-> "edited", name |-> origin.name]
    /\ UNCHANGED <<obb_available, pc, active, price_data, result, data_after>>
    /\ UNCHANGED <<libvars, fetchvars>>

\* display_indicator_summary(config): active_indicators = config.get_active_indicators()
DisplaySummary ==
    /\ pc = "sidebar"
    /\ active' = get_active_indicators(config)
    /\ pc' = "summary"
    /\ UNCHANGED <<obb_available, config, origin, price_data, result, table, data_after>>
    /\ UNCHANGED <<libvars, fetchvars>>

\* indicators = data_fetcher.get_technical_indicators(symbol, period, indicator_config)
\* (a call that computes: no cached value is handed back).
Compute ==
    /\ pc = "summary"
    /\ \E fetched \in DataFrames \cup {NoFrame} :
          LET data == get_stock_price_data(obb_available, fetched)
          IN  /\ price_data' = data
              /\ result' \in get_technical_indicators(obb_available, config, data)
              /\ data_after' = AfterCalls(data, result'.calls, 1)
    /\ pc' = "computed"
    /\ UNCHANGED <<obb_available, config, origin, active, table>>
    /\ UNCHANGED <<libvars, fetchvars>>

\* The script run ends; the next run starts at the sidebar with the session
\* configuration and none of the run's locals.
Rerun ==
    /\ pc = "computed"
    /\ pc' = "sidebar"
    /\ active' = <<>>
    /\ price_data' = NoFrame
    /\ result' = NotRun
    /\ data_after' = NoFrame
    /\ UNCHANGED <<obb_available, config, origin, table>>
    /\ UNCHANGED <<libvars, fetchvars>>

Next == FromPreset \/ NewConfig \/ SidebarEdit \/ DisplaySummary \/ Compute \/ Rerun

Spec == Init /\ [][Next]_vars

(***************************************************************************)
(* The sidebar on its own: create_indicator_sidebar run after run on the   *)
(* session configuration, with what the user does to the widgets as input. *)
(* The widgets modelled are the SMA and EMA checkboxes and multiselects    *)
(* and the Ichimoku and RSI checkboxes; every other widget hands back the  *)
(* value the configuration already has.                                    *)
(***************************************************************************)
\* Selections of the multiselects, taken from options=[5, 10, 20, 50, 100, 200]
\* and options=[5, 10, 12, 20, 26, 50, 200].
SmaSelections == {<<>>, <<5>>, <<20, 50>>, <<5, 10, 20, 50, 100, 200>>}

EmaSelections == {<<>>, <<12, 26>>, <<5, 10, 12, 20, 26, 50, 200>>}

SidebarInputs ==
    [sma_enabled : BOOLEAN, sma_periods : SmaSelections,
     ema_enabled : BOOLEAN, ema_periods : EmaSelections,
     ichimoku : BOOLEAN, rsi : BOOLEAN]

\* Variant that assigns the selection as it is: config.sma = sma_periods.
PeriodsAssigned_keep_empty(enabled, periods) ==
    IF enabled THEN List(periods) ELSE None

\* if sma_enabled: config.sma = sma_periods if sma_periods else None
\* else: config.sma = None
PeriodsAssigned(enabled, periods) ==
    IF enabled /\ periods # <<>> THEN List(periods) ELSE None

\* The assignments of one pass of create_indicator_sidebar to the fields of
\* the session configuration `c`.
create_indicator_sidebar(c, input) ==
    [c EXCEPT !.sma = PeriodsAssigned(input.sma_enabled, input.sma_periods),
              !.ema = PeriodsAssigned(input.ema_enabled, input.ema_periods),
              !.ichimoku = input.ichimoku,
              !.rsi = input.rsi]

\* A pass in which no button is pressed: the fields are assigned in place
\* (an instance that came from the presets dictionary changes with them) and
\* the configuration is stored in the session state and returned.
SidebarPass ==
    /\ pc = "sidebar"
    /\ \E input \in SidebarInputs :
          /\ config' = create_indicator_sidebar(config, input)
          /\ table' = IF origin.op \in {"from_preset", "edited"}
                         /\ origin.name \in PresetNames
                      THEN [table EXCEPT ![origin.name] =
                                create_indicator_sidebar(config, input)]
                      ELSE table
    /\ origin' = [op |-> "edited", name |-> origin.name]
    /\ UNCHANGED <<obb_available, pc, active, price_data, result, data_after>>
    /\ UNCHANGED <<libvars, fetchvars>>

\* The Clear All button: config = IndicatorConfig(), stored in the session
\* state; st.rerun() ends the run.
ClearAll ==
    /\ pc = "sidebar"
    /\ config' = DefaultConfig
    /\ origin' = [op |-> "Clear All", name |-> ""]
    /\ table' = FreshPresets
    /\ UNCHANGED <<obb_available, pc, active, price_data, result, data_after>>
    /\ UNCHANGED <<libvars, fetchvars>>

SidebarNext == SidebarPass \/ FromPreset \/ ClearAll

SidebarSpec == Init /\ [][SidebarNext]_vars

(***************************************************************************)
(* Values of a pandas Series. Floating point numbers are idealised to      *)
(* exact fractions n/d in lowest terms, with the IEEE values NaN and       *)
(* +/-inf that division by zero produces; the sign of a zero is dropped    *)
(* (a non-zero number divided by zero takes the sign of the number).       *)
(* Common factors are cancelled before multiplying, to keep the            *)
(* intermediate integers small.                                            *)
(***************************************************************************)
Abs(i) == IF i < 0 THEN -i ELSE i

Sgn(i) == IF i < 0 THEN -1 ELSE IF i > 0 THEN 1 ELSE 0

RECURSIVE GCD(_, _)
GCD(a, b) == IF b = 0 THEN a ELSE GCD(b, a % b)

\* The fraction n/d (d # 0) in lowest terms with a positive denominator.
Q(n, d) ==
    LET g == GCD(Abs(n), Abs(d))
    IN  [k |-> "num", n |-> (Sgn(d) * n) \div g, d |-> Abs(d) \div g]

Num(i) == Q(i, 1)

NaN == [k |-> "nan", n |-> 0, d |-> 1]

Inf(sign) == [k |-> "inf", n |-> sign, d |-> 1]

IsNaN(x) == x.k = "nan"

IsNum(x) == x.k = "num"

Neg(x) == [x EXCEPT !.n = -x.n]

AbsV(x) == [x EXCEPT !.n = Abs(x.n)]

Add(x, y) ==
    IF IsNaN(x) \/ IsNaN(y) THEN NaN
    ELSE IF x.k = "inf" /\ y.k = "inf" THEN (IF x.n = y.n THEN x ELSE NaN)
    ELSE IF x.k = "inf" THEN x
    ELSE IF y.k = "inf" THEN y
    ELSE LET g == GCD(x.d, y.d)
         IN  Q(x.n * (y.d \div g) + y.n * (x.d \div g), (x.d \div g) * y.d)

Sub(x, y) == Add(x, Neg(y))

Mul(x, y) ==
    IF IsNaN(x) \/ IsNaN(y) THEN NaN
    ELSE IF x.k = "inf" \/ y.k = "inf"
         THEN (IF x.n = 0 \/ y.n = 0 THEN NaN ELSE Inf(Sgn(x.n) * Sgn(y.n)))
    ELSE LET g == GCD(Abs(x.n), y.d)
             h == GCD(Abs(y.n), x.d)
         IN  Q((x.n \div g) * (y.n \div h), (x.d \div h) * (y.d \div g))

Div(x, y) ==
    IF IsNaN(x) \/ IsNaN(y) THEN NaN
    ELSE IF x.k = "inf"
         THEN (IF y.k = "inf" THEN NaN
               ELSE Inf(x.n * (IF y.n < 0 THEN -1 ELSE 1)))
    ELSE IF y.k = "inf" THEN Num(0)
    ELSE IF y.n = 0 THEN (IF x.n = 0 THEN NaN ELSE Inf(Sgn(x.n)))
    ELSE Mul(x, Q(y.d, y.n))

\* x > y as pandas compares: False when either side is NaN.
Gt(x, y) ==
    /\ ~IsNaN(x) /\ ~IsNaN(y)
    /\ LET z == Sub(x, y) IN ~IsNaN(z) /\ z.n > 0

\* numpy maximum of two values that are not NaN.
MaxV(x, y) == IF Gt(y, x) THEN y ELSE x

(***************************************************************************)
(* pandas operations on a Series (a sequence of values, index 1 first).    *)
(***************************************************************************)
\* Series.diff()
Diff(s) == [i \in DOMAIN s |-> IF i = 1 THEN NaN ELSE Sub(s[i], s[i - 1])]

\* Series.shift()
Shift(s) == [i \in DOMAIN s |-> IF i = 1 THEN NaN ELSE s[i - 1]]

\* The running sum and count of observations of Series.rolling(window) after
\* index i: the value entering the window is added, the one leaving it is
\* removed, and NaN is no observation.
RECURSIVE RollState(_, _, _)
RollState(s, window, i) ==
    IF i = 0 THEN [sum |-> Num(0), nobs |-> 0]
    ELSE LET prev == RollState(s, window, i - 1)
             added == IF IsNaN(s[i]) THEN prev
                      ELSE [sum |-> Add(prev.sum, s[i]), nobs |-> prev.nobs + 1]
         IN  IF i > window /\ ~IsNaN(s[i - window])
             THEN [sum |-> Sub(added.sum, s[i - window]), nobs |-> added.nobs - 1]
             ELSE added

\* Variant of rolling(window).mean() with min_periods=1: a mean over the
\* observations there are.
RollingMean_min_periods_1(s, window) ==
    [i \in DOMAIN s |->
        LET r == RollState(s, window, i)
        IN  IF r.nobs >= 1 THEN Div(r.sum, Num(r.nobs)) ELSE NaN]

\* Series.rolling(window=window).mean(): min_periods is the window.
RollingMean(s, window) ==
    [i \in DOMAIN s |->
        LET r == RollState(s, window, i)
        IN  IF r.nobs >= window /\ r.nobs > 0 THEN Div(r.sum, Num(r.nobs)) ELSE NaN]

\* The weighted average and the weight of the past of Series.ewm(span) after
\* index i, with pandas' defaults (adjust=True): the past is discounted by
\* 1 - alpha and the new value enters with weight 1.
RECURSIVE EwmState(_, _, _)
EwmState(s, span, i) ==
    IF i = 1 THEN [avg |-> s[1], old_wt |-> Num(1)]
    ELSE LET prev == EwmState(s, span, i - 1)
             alpha == Q(2, span + 1)
             old_wt == Mul(prev.old_wt, Sub(Num(1), alpha))
         IN  [avg |-> Div(Add(Mul(old_wt, prev.avg), s[i]), Add(old_wt, Num(1))),
              old_wt |-> Add(old_wt, Num(1))]

\* Series.ewm(span=span).mean()
EwmMean(s, span) == [i \in DOMAIN s |-> EwmState(s, span, i).avg]

\* data['close'], data['high'], data['low'] of a series of bars.
Column(data, name) == [i \in DOMAIN data |-> Num(data[i][name])]

\* a - b, a + b of two Series on the same index.
SubS(a, b) == [i \in DOMAIN a |-> Sub(a[i], b[i])]

\* data['volume'] of a frame whose volume column holds `volume`.
VolumeColumn(volume) == [i \in DOMAIN volume |-> Num(volume[i])]

\* cumsum() of values none of which is NaN.
RECURSIVE CumSumAt(_, _)
CumSumAt(s, i) == IF i = 0 THEN Num(0) ELSE Add(CumSumAt(s, i - 1), s[i])

CumSum(s) == [i \in DOMAIN s |-> CumSumAt(s, i)]

\* Series.rolling(window=window).sum(): min_periods is the window.
RollingSum(s, window) ==
    [i \in DOMAIN s |->
        LET r == RollState(s, window, i)
        IN  IF r.nobs >= window THEN r.sum ELSE NaN]

\* Series.shift(periods): the value of `periods` rows earlier (later, when
\* periods is negative), NaN where there is none; the index stays.
ShiftBy(s, periods) ==
    [i \in DOMAIN s |-> IF (i - periods) \in DOMAIN s THEN s[i - periods] ELSE NaN]

\* The largest and the smallest of s[lo..hi], values that are not NaN.
RECURSIVE MaxOver(_, _, _)
MaxOver(s, lo, hi) == IF lo = hi THEN s[lo] ELSE MaxV(MaxOver(s, lo, hi - 1), s[hi])

RECURSIVE MinOver(_, _, _)
MinOver(s, lo, hi) ==
    IF lo = hi THEN s[lo]
    ELSE LET m == MinOver(s, lo, hi - 1) IN IF Gt(m, s[hi]) THEN s[hi] ELSE m

\* Series.rolling(window=window).max() and .min() of a Series without NaN:
\* min_periods is the window.
RollingMax(s, window) ==
    [i \in DOMAIN s |->
        IF window >= 1 /\ i >= window THEN MaxOver(s, i - window + 1, i) ELSE NaN]

RollingMin(s, window) ==
    [i \in DOMAIN s |->
        IF window >= 1 /\ i >= window THEN MinOver(s, i - window + 1, i) ELSE NaN]

\* The square root of a value that is not negative, to two decimal places.
RECURSIVE ISqrt(_, _)
ISqrt(v, r) == IF (r + 1) * (r + 1) > v THEN r ELSE ISqrt(v, r + 1)

Sqrt(x) ==
    IF ~IsNum(x) THEN x
    ELSE IF x.n < 0 THEN NaN
    ELSE Q(ISqrt((x.n * 10000) \div x.d, 0), 100)

\* Series.rolling(window=window).std() of a Series without NaN: the sample
\* standard deviation (ddof=1) of the window, NaN for fewer than `window`
\* or fewer than two observations.
RollingStd(s, window) ==
    [i \in DOMAIN s |->
        IF window >= 2 /\ i >= window
        THEN LET mean == Div(CumSumAt([j \in 1..window |-> s[i - window + j]], window),
                             Num(window))
                 sq == [j \in 1..window |->
                           Mul(Sub(s[i - window + j], mean), Sub(s[i - window + j], mean))]
             IN  Sqrt(Div(CumSumAt(sq, window), Num(window - 1)))
        ELSE NaN]

\* The index of the frame of a series of bars (its timestamps, in order),
\* and the RangeIndex a DataFrame built from arrays of n values gets.
DataIndex(data) == [i \in DOMAIN data |-> [kind |-> "time", at |-> i]]

RangeIndex(n) == [i \in 1..n |-> [kind |-> "row", at |-> i - 1]]

(***************************************************************************)
(* The local formulas of the indicator functions (the except branches),    *)
(* on a series of bars [high, low, close]: the columns of the DataFrame    *)
(* each one builds.                                                        *)
(***************************************************************************)
\* _compute_sma: sma = data['close'].rolling(window=window).mean()
sma_fallback(data, window) ==
    [sma |-> RollingMean(Column(data, "close"), window)]

\* _compute_ema: ema = data['close'].ewm(span=window).mean()
ema_fallback(data, window) ==
    [ema |-> EwmMean(Column(data, "close"), window)]

\* delta.where(delta > 0, 0)
Gains(delta) == [i \in DOMAIN delta |-> IF Gt(delta[i], Num(0)) THEN delta[i] ELSE Num(0)]

\* -delta.where(delta < 0, 0)
Losses(delta) ==
    [i \in DOMAIN delta |-> IF Gt(Num(0), delta[i]) THEN Neg(delta[i]) ELSE Num(0)]

\* rsi = 100 - (100 / (1 + rs))
RsiOf(rs) == Sub(Num(100), Div(Num(100), Add(Num(1), rs)))

\* _compute_rsi: gain and loss are rolling means, rs = gain / loss
rsi_fallback(data, window) ==
    LET delta == Diff(Column(data, "close"))
        gain == RollingMean(Gains(delta), window)
        loss == RollingMean(Losses(delta), window)
    IN  [rsi |-> [i \in DOMAIN data |-> RsiOf(Div(gain[i], loss[i]))]]

\* Variant of the MACD formula with the histogram the other way round:
\* histogram = signal_line - macd_line.
macd_fallback_hist_reversed(data, fast, slow, signal) ==
    LET close == Column(data, "close")
        macd_line == SubS(EwmMean(close, fast), EwmMean(close, slow))
        signal_line == EwmMean(macd_line, signal)
    IN  [macd |-> macd_line, signal |-> signal_line,
         hist |-> SubS(signal_line, macd_line)]

\* _compute_macd: macd_line, signal_line and histogram
macd_fallback(data, fast, slow, signal) ==
    LET close == Column(data, "close")
        ema_fast == EwmMean(close, fast)
        ema_slow == EwmMean(close, slow)
        macd_line == SubS(ema_fast, ema_slow)
        signal_line == EwmMean(macd_line, signal)
        histogram == SubS(macd_line, signal_line)
    IN  [macd |-> macd_line, signal |-> signal_line, hist |-> histogram]

\* pd.concat([high_low, high_close, low_close], axis=1).max(axis=1): the
\* largest of the values of the row that are not NaN (high_low never is).
TrueRange(data) ==
    LET high == Column(data, "high")
        low == Column(data, "low")
        prev == Shift(Column(data, "close"))
    IN  [i \in DOMAIN data |->
            LET high_low == Sub(high[i], low[i])
                high_close == AbsV(Sub(high[i], prev[i]))
                low_close == AbsV(Sub(low[i], prev[i]))
            IN  IF IsNaN(prev[i]) THEN high_low
                ELSE MaxV(high_low, MaxV(high_close, low_close))]

\* _compute_atr, local formula: atr = true_range.rolling(window=window).mean()
atr_fallback(data, window) == [atr |-> RollingMean(TrueRange(data), window)]

\* What the provider's ATR call did, as the nested call of _compute_dmi sees
\* it: it raised, it returned a frame without an 'atr' column, or a frame
\* with an 'atr' column that holds the value v in every row.
AtrAnswers ==
    {[p |-> "raise", v |-> 0], [p |-> "frame", v |-> 0]}
    \cup {[p |-> "frame_atr", v |-> v] : v \in {0, 2}}

\* _compute_atr(data, window) with that answer: the frame returned, with
\* `has` telling whether it has an 'atr' column.
atr_data(data, window, answer) ==
    CASE answer.p = "raise" -> [has |-> TRUE, atr |-> atr_fallback(data, window).atr]
      [] answer.p = "frame_atr" ->
            [has |-> TRUE, atr |-> [i \in DOMAIN data |-> Num(answer.v)]]
      [] OTHER -> [has |-> FALSE, atr |-> <<>>]

\* np.where((high_diff > low_diff) & (high_diff > 0), high_diff, 0)
plus_dm(data) ==
    LET high_diff == Diff(Column(data, "high"))
        low_diff == Diff(Column(data, "low"))
    IN  [i \in DOMAIN data |->
            IF Gt(high_diff[i], low_diff[i]) /\ Gt(high_diff[i], Num(0))
            THEN high_diff[i] ELSE Num(0)]

\* np.where((low_diff > high_diff) & (low_diff > 0), low_diff, 0)
minus_dm(data) ==
    LET high_diff == Diff(Column(data, "high"))
        low_diff == Diff(Column(data, "low"))
    IN  [i \in DOMAIN data |->
            IF Gt(low_diff[i], high_diff[i]) /\ Gt(low_diff[i], Num(0))
            THEN low_diff[i] ELSE Num(0)]

\* _compute_dmi with the frame _compute_atr gave it: None, or +di and -di.
dmi_data(data, window, answer) ==
    LET a == atr_data(data, window, answer)
        pdm == RollingMean(plus_dm(data), window)
        mdm == RollingMean(minus_dm(data), window)
    IN  IF ~a.has THEN [isNone |-> TRUE, plus_di |-> <<>>, minus_di |-> <<>>]
        ELSE [isNone |-> FALSE,
              plus_di |-> [i \in DOMAIN data |-> Div(Mul(Num(100), pdm[i]), a.atr[i])],
              minus_di |-> [i \in DOMAIN data |-> Div(Mul(Num(100), mdm[i]), a.atr[i])]]

\* dx = 100 * np.abs(plus_di - minus_di) / (plus_di + minus_di)
DxOf(plus_di, minus_di) ==
    [i \in DOMAIN plus_di |->
        Div(Mul(Num(100), AbsV(Sub(plus_di[i], minus_di[i]))),
            Add(plus_di[i], minus_di[i]))]

\* Variant of the ADX fallback without the smoothing: adx = dx.
adx_fallback_unsmoothed(data, window, answer) ==
    LET dmi == dmi_data(data, window, answer)
    IN  IF dmi.isNone THEN [isNone |-> TRUE, adx |-> <<>>]
        ELSE [isNone |-> FALSE, adx |-> DxOf(dmi.plus_di, dmi.minus_di)]

\* _compute_adx, fallback: adx = dx.rolling(window=window).mean() of the dx
\* of _compute_dmi's output; None when _compute_dmi gave None.
adx_fallback(data, window, answer) ==
    LET dmi == dmi_data(data, window, answer)
    IN  IF dmi.isNone THEN [isNone |-> TRUE, adx |-> <<>>]
        ELSE [isNone |-> FALSE,
              adx |-> RollingMean(DxOf(dmi.plus_di, dmi.minus_di), window)]

\* _compute_stochastic, local formula
stochastic_fallback(data, k, d, smooth_k) ==
    LET low_k == RollingMin(Column(data, "low"), k)
        high_k == RollingMax(Column(data, "high"), k)
        close == Column(data, "close")
        k_percent == [i \in DOMAIN data |->
                         Div(Mul(Num(100), Sub(close[i], low_k[i])),
                             Sub(high_k[i], low_k[i]))]
        k_percent_smooth == RollingMean(k_percent, smooth_k)
        d_percent == RollingMean(k_percent_smooth, d)
    IN  [pK |-> k_percent_smooth, pD |-> d_percent]

\* Variant of the Bollinger formula with the bands the other way round:
\* upper = sma - (std * std_dev), lower = sma + (std * std_dev).
bbands_fallback_swapped(data, window, std_dev) ==
    LET sma == RollingMean(Column(data, "close"), window)
        std == RollingStd(Column(data, "close"), window)
    IN  [bb_upper |-> [i \in DOMAIN data |-> Sub(sma[i], Mul(std[i], std_dev))],
         bb_mid |-> sma,
         bb_lower |-> [i \in DOMAIN data |-> Add(sma[i], Mul(std[i], std_dev))]]

\* _compute_bollinger_bands, local formula
bbands_fallback(data, window, std_dev) ==
    LET sma == RollingMean(Column(data, "close"), window)
        std == RollingStd(Column(data, "close"), window)
    IN  [bb_upper |-> [i \in DOMAIN data |-> Add(sma[i], Mul(std[i], std_dev))],
         bb_mid |-> sma,
         bb_lower |-> [i \in DOMAIN data |-> Sub(sma[i], Mul(std[i], std_dev))]]

\* _compute_keltner_channels, fallback, with the frame _compute_atr gave
\* it: None, or the three lines.
keltner_fallback(data, window, multiplier, answer) ==
    LET ema == EwmMean(Column(data, "close"), window)
        a == atr_data(data, window, answer)
    IN  IF ~a.has
        THEN [isNone |-> TRUE, kel_upper |-> <<>>, kel_mid |-> <<>>, kel_lower |-> <<>>]
        ELSE [isNone |-> FALSE,
              kel_upper |-> [i \in DOMAIN data |-> Add(ema[i], Mul(a.atr[i], multiplier))],
              kel_mid |-> ema,
              kel_lower |-> [i \in DOMAIN data |-> Sub(ema[i], Mul(a.atr[i], multiplier))]]

\* (a + b) / 2 of two Series on the same index.
MidS(a, b) == [i \in DOMAIN a |-> Div(Add(a[i], b[i]), Num(2))]

\* _compute_ichimoku
ichimoku_fallback(data, conversion, base, span_b) ==
    LET high == Column(data, "high")
        low == Column(data, "low")
        conversion_line == MidS(RollingMax(high, conversion), RollingMin(low, conversion))
        base_line == MidS(RollingMax(high, base), RollingMin(low, base))
    IN  [conversion_line |-> conversion_line,
         base_line |-> base_line,
         leading_span_a |-> ShiftBy(MidS(conversion_line, base_line), base),
         leading_span_b |->
             ShiftBy(MidS(RollingMax(high, span_b), RollingMin(low, span_b)), base),
         lagging_span |-> ShiftBy(Column(data, "close"), -base)]

\* (data['high'] + data['low'] + data['close']) / 3
typical_price(data) ==
    [i \in DOMAIN data |->
        Div(Add(Add(Num(data[i].high), Num(data[i].low)), Num(data[i].close)), Num(3))]

\* _compute_obv, local formula: the volume added when the close rose,
\* subtracted when it fell, and the running sum of that.
obv_fallback(data, volume) ==
    LET price_change == Diff(Column(data, "close"))
        vol == VolumeColumn(volume)
        volume_direction ==
            [i \in DOMAIN data |->
                IF Gt(price_change[i], Num(0)) THEN vol[i]
                ELSE IF Gt(Num(0), price_change[i]) THEN Neg(vol[i])
                ELSE Num(0)]
    IN  [obv |-> CumSum(volume_direction)]

\* _compute_mfi
mfi_fallback(data, volume, window) ==
    LET tp == typical_price(data)
        vol == VolumeColumn(volume)
        money_flow == [i \in DOMAIN data |-> Mul(tp[i], vol[i])]
        price_change == Diff(tp)
        positive_flow ==
            RollingSum([i \in DOMAIN data |->
                           IF Gt(price_change[i], Num(0)) THEN money_flow[i] ELSE Num(0)],
                       window)
        negative_flow ==
            RollingSum([i \in DOMAIN data |->
                           IF Gt(Num(0), price_change[i]) THEN money_flow[i] ELSE Num(0)],
                       window)
    IN  [mfi |-> [i \in DOMAIN data |->
                     RsiOf(Div(positive_flow[i], AbsV(negative_flow[i])))]]

\* _compute_vwap: vwap = volume_price.cumsum() / data['volume'].cumsum()
vwap_fallback(data, volume) ==
    LET tp == typical_price(data)
        vol == VolumeColumn(volume)
        volume_price == [i \in DOMAIN data |-> Mul(tp[i], vol[i])]
        num == CumSum(volume_price)
        den == CumSum(vol)
    IN  [vwap |-> [i \in DOMAIN data |-> Div(num[i], den[i])]]

\* The smallest and the largest value of a Series without NaN, up to index i.
RECURSIVE MinUpTo(_, _)
MinUpTo(s, i) ==
    IF i = 1 THEN s[1]
    ELSE LET m == MinUpTo(s, i - 1) IN IF Gt(m, s[i]) THEN s[i] ELSE m

RECURSIVE MaxUpTo(_, _)
MaxUpTo(s, i) == IF i = 1 THEN s[1] ELSE MaxV(MaxUpTo(s, i - 1), s[i])

\* np.histogram(a, bins=bins, weights=w): bins + 1 edges evenly spaced from
\* the smallest to the largest value (widened by a half on each side when
\* they are equal), and for each bin the sum of the weights of the values
\* in it; the last bin also holds the largest value.
histogram(a, bins, w) ==
    LET first == MinUpTo(a, Len(a))
        last == MaxUpTo(a, Len(a))
        lo == IF first = last THEN Sub(first, Q(1, 2)) ELSE first
        hi == IF first = last THEN Add(last, Q(1, 2)) ELSE last
        width == Sub(hi, lo)
        BinOf(v) ==
            IF v = hi THEN bins
            ELSE LET at == Div(Mul(Sub(v, lo), Num(bins)), width)
                 IN  1 + (at.n \div at.d)
        Weight(i, j) == IF BinOf(a[i]) = j THEN w[i] ELSE Num(0)
    IN  [hist |-> [j \in 1..bins |->
                      CumSumAt([i \in DOMAIN a |-> Weight(i, j)], Len(a))],
         bin_edges |-> [j \in 1..(bins + 1) |->
                           Add(lo, Div(Mul(width, Num(j - 1)), Num(bins)))]]

\* Variant of the volume profile with one row for each edge of a bin:
\* 'price_bin': bin_edges.
volume_profile_fallback_edges(data, volume, bins) ==
    LET h == histogram(Column(data, "close"), bins, VolumeColumn(volume))
    IN  [price_bin |-> h.bin_edges,
         volume_sum |-> [j \in 1..(bins + 1) |-> IF j <= bins THEN h.hist[j] ELSE Num(0)]]

\* _compute_volume_profile: one row for each bin, with the centre of the bin
\* (bin_edges[:-1] + bin_edges[1:]) / 2 and the volume summed in it.
volume_profile_fallback(data, volume, bins) ==
    LET h == histogram(Column(data, "close"), bins, VolumeColumn(volume))
    IN  [price_bin |-> [j \in 1..bins |->
                           Div(Add(h.bin_edges[j], h.bin_edges[j + 1]), Num(2))],
         volume_sum |-> h.hist]

(***************************************************************************)
(* An indicator function called on its own (as a test of the library       *)
(* does), once, with a series of bars and its parameters. The provider     *)
(* either                                                                  *)
(* answers, and the function hands back the provider's frame, whose        *)
(* content is not modelled, or raises, and the function computes its       *)
(* local formula.                                                          *)
(***************************************************************************)
Bar(h, l, c) == [high |-> h, low |-> l, close |-> c]

\* The bars the series are made of: closes that rise from one bar to the
\* next (and stay, when a bar is repeated), a high that rises by more than
\* the low, and a low that rises under an unchanged high.
BarShapes == {Bar(2, 1, 1), Bar(4, 2, 2), Bar(4, 3, 3)}

RECURSIVE SeriesOfLen(_)
SeriesOfLen(n) ==
    IF n = 0 THEN {<<>>}
    ELSE {Append(t, b) : t \in SeriesOfLen(n - 1), b \in BarShapes}

\* A bar whose high is under its low, and the short series that hold it.
InvertedBar == Bar(1, 3, 2)

InvertedSeries ==
    {<<InvertedBar>>, <<InvertedBar, InvertedBar>>}
    \cup {<<InvertedBar, b>> : b \in BarShapes}
    \cup {<<b, InvertedBar>> : b \in BarShapes}

BarSeries == UNION {SeriesOfLen(n) : n \in 1..MaxLen} \cup InvertedSeries

\* The multipliers a band function is called with: std_dev, multiplier.
Multipliers == {Num(0), Q(3, 2), Num(2)}

Windows == 1..MaxWindow

\* The DataFrame of a series of bars.
FrameOf(data) == Frame(Len(data), {"high", "low", "close"})

\* The volume column a call is given with the bars: none, the same volume
\* on every bar, or no volume on the first bar and a larger one after it.
NoColumn == <<>>

VolumeColumns(data) ==
    {NoColumn, [i \in DOMAIN data |-> 2], [i \in DOMAIN data |-> IF i = 1 THEN 0 ELSE 3]}

\* The DataFrame of a series of bars with that volume column.
FrameWith(data, volume) ==
    Frame(Len(data),
          {"high", "low", "close"} \cup (IF volume = NoColumn THEN {} ELSE {"volume"}))

\* No nested ATR call was made.
NoAnswer == [p |-> "none", v |-> 0]

\* What the call returned: `status` is "frame", "none" or "raise"; `local`
\* tells that the frame was built by the local formula, and then `cols`
\* holds its columns and `index` its index, pd.DataFrame({...},
\* index=data.index); `answer` is what the nested ATR call got.
Output(fn, args, status, p, answer, cols) ==
    [fn |-> fn, args |-> args, status |-> status,
     local |-> (status = "frame" /\ p = "raise"),
     answer |-> answer,
     cols |-> IF status = "frame" /\ p = "raise" THEN cols ELSE <<>>,
     index |-> IF status = "frame" /\ p = "raise" THEN DataIndex(bars) ELSE <<>>]

\* The same for a function of the volume indicators, with the volume column
\* the call was given and the index of the frame it built.
VolumeOutput(fn, args, status, p, cols, index, volume) ==
    [fn |-> fn, args |-> args, status |-> status,
     local |-> (status = "frame" /\ p = "raise"),
     answer |-> NoAnswer,
     cols |-> IF status = "frame" /\ p = "raise" THEN cols ELSE <<>>,
     index |-> IF status = "frame" /\ p = "raise" THEN index ELSE <<>>,
     volume |-> volume]

LibInit ==
    /\ obb_available = TRUE
    /\ config = DefaultConfig
    /\ origin = [op |-> "IndicatorConfig", name |-> ""]
    /\ pc = "sidebar"
    /\ active = <<>>
    /\ price_data = NoFrame
    /\ result = NotRun
    /\ table = FreshPresets
    /\ data_after = NoFrame
    /\ bars \in BarSeries
    /\ output = NoOutput
    /\ symbols = <<>>
    /\ market = NoMarket
    /\ many = NoMany

CallSma ==
    /\ output = NoOutput
    /\ \E window \in Windows, p \in ProviderOutcomes :
          output' = Output("sma", <<window>>, _compute_sma(FrameOf(bars), window, p),
                           p, NoAnswer, sma_fallback(bars, window))
    /\ UNCHANGED bars
    /\ UNCHANGED <<appvars, fetchvars>>

CallEma ==
    /\ output = NoOutput
    /\ \E window \in Windows, p \in ProviderOutcomes :
          output' = Output("ema", <<window>>, _compute_ema(FrameOf(bars), window, p),
                           p, NoAnswer, ema_fallback(bars, window))
    /\ UNCHANGED bars
    /\ UNCHANGED <<appvars, fetchvars>>

CallRsi ==
    /\ output = NoOutput
    /\ \E window \in Windows, p \in ProviderOutcomes :
          output' = Output("rsi", <<window>>, _compute_rsi(FrameOf(bars), window, p),
                           p, NoAnswer, rsi_fallback(bars, window))
    /\ UNCHANGED bars
    /\ UNCHANGED <<appvars, fetchvars>>

CallMacd ==
    /\ output = NoOutput
    /\ \E fast \in Windows, slow \in Windows, signal \in Windows, p \in ProviderOutcomes :
          output' = Output("macd", <<fast, slow, signal>>,
                           _compute_macd(FrameOf(bars), fast, slow, signal, p),
                           p, NoAnswer, macd_fallback(bars, fast, slow, signal))
    /\ UNCHANGED bars
    /\ UNCHANGED <<appvars, fetchvars>>

CallAtr ==
    /\ output = NoOutput
    /\ \E window \in Windows, answer \in AtrAnswers :
          output' = Output("atr", <<window>>, _compute_atr(FrameOf(bars), window, answer.p),
                           answer.p, answer, atr_fallback(bars, window))
    /\ UNCHANGED bars
    /\ UNCHANGED <<appvars, fetchvars>>

CallDmi ==
    /\ output = NoOutput
    /\ \E window \in Windows, answer \in AtrAnswers :
          output' = [Output("dmi", <<window>>, _compute_dmi(FrameOf(bars), window, answer.p),
                            "raise", answer, dmi_data(bars, window, answer))
                     EXCEPT !.local = (_compute_dmi(FrameOf(bars), window, answer.p) = "frame")]
    /\ UNCHANGED bars
    /\ UNCHANGED <<appvars, fetchvars>>

CallAdx ==
    /\ output = NoOutput
    /\ \E window \in Windows, p \in ProviderOutcomes, answer \in AtrAnswers :
          output' = Output("adx", <<window>>,
                           _compute_adx(FrameOf(bars), window, p, answer.p),
                           p, IF p = "raise" THEN answer ELSE NoAnswer,
                           adx_fallback(bars, window, answer))
    /\ UNCHANGED bars
    /\ UNCHANGED <<appvars, fetchvars>>

CallStochastic ==
    /\ output = NoOutput
    /\ \E k \in Windows, d \in Windows, smooth_k \in Windows, p \in ProviderOutcomes :
          output' = Output("stochastic", <<k, d, smooth_k>>,
                           _compute_stochastic(FrameOf(bars), k, d, smooth_k, p),
                           p, NoAnswer, stochastic_fallback(bars, k, d, smooth_k))
    /\ UNCHANGED bars
    /\ UNCHANGED <<appvars, fetchvars>>

CallBollinger ==
    /\ output = NoOutput
    /\ \E window \in Windows, std_dev \in Multipliers, p \in ProviderOutcomes :
          output' = Output("bbands", <<window, std_dev>>,
                           _compute_bollinger_bands(FrameOf(bars), window, std_dev, p),
                           p, NoAnswer, bbands_fallback(bars, window, std_dev))
    /\ UNCHANGED bars
    /\ UNCHANGED <<appvars, fetchvars>>

CallKeltner ==
    /\ output = NoOutput
    /\ \E window \in Windows, multiplier \in Multipliers, p \in ProviderOutcomes,
          answer \in AtrAnswers :
          output' = Output("keltner", <<window, multiplier>>,
                           _compute_keltner_channels(FrameOf(bars), window, multiplier,
                                                     p, answer.p),
                           p, IF p = "raise" THEN answer ELSE NoAnswer,
                           keltner_fallback(bars, window, multiplier, answer))
    /\ UNCHANGED bars
    /\ UNCHANGED <<appvars, fetchvars>>

\* _compute_ichimoku calls no provider.
CallIchimoku ==
    /\ output = NoOutput
    /\ \E conversion \in Windows, base \in Windows, span_b \in Windows :
          output' = Output("ichimoku", <<conversion, base, span_b>>,
                           _compute_ichimoku(FrameOf(bars), conversion, base, span_b),
                           "raise", NoAnswer,
                           ichimoku_fallback(bars, conversion, base, span_b))
    /\ UNCHANGED bars
    /\ UNCHANGED <<appvars, fetchvars>>

CallObv ==
    /\ output = NoOutput
    /\ \E volume \in VolumeColumns(bars), p \in ProviderOutcomes :
          output' = VolumeOutput("obv", <<>>, _compute_obv(FrameWith(bars, volume), p),
                                 p, obv_fallback(bars, volume), DataIndex(bars), volume)
    /\ UNCHANGED bars
    /\ UNCHANGED <<appvars, fetchvars>>

\* _compute_mfi, _compute_vwap and _compute_volume_profile call no provider.
CallMfi ==
    /\ output = NoOutput
    /\ \E volume \in VolumeColumns(bars), window \in Windows :
          output' = VolumeOutput("mfi", <<window>>,
                                 _compute_mfi(FrameWith(bars, volume), window),
                                 "raise", mfi_fallback(bars, volume, window),
                                 DataIndex(bars), volume)
    /\ UNCHANGED bars
    /\ UNCHANGED <<appvars, fetchvars>>

CallVwap ==
    /\ output = NoOutput
    /\ \E volume \in VolumeColumns(bars) :
          output' = VolumeOutput("vwap", <<>>, _compute_vwap(FrameWith(bars, volume)),
                                 "raise", vwap_fallback(bars, volume), DataIndex(bars),
                                 volume)
    /\ UNCHANGED bars
    /\ UNCHANGED <<appvars, fetchvars>>

\* pd.DataFrame({'price_bin': ..., 'volume_sum': ...}) is given no index: its
\* rows are numbered, as many as the arrays are long.
CallVolumeProfile ==
    /\ output = NoOutput
    /\ \E volume \in VolumeColumns(bars), bins \in Windows :
          output' = VolumeOutput("volume_profile", <<bins>>,
                                 _compute_volume_profile(FrameWith(bars, volume), bins),
                                 "raise", volume_profile_fallback(bars, volume, bins),
                                 RangeIndex(Len(volume_profile_fallback(bars, volume, bins).price_bin)),
                                 volume)
    /\ UNCHANGED bars
    /\ UNCHANGED <<appvars, fetchvars>>

LibNext ==
    \/ CallSma \/ CallEma \/ CallRsi \/ CallMacd \/ CallAtr \/ CallDmi \/ CallAdx
    \/ CallStochastic \/ CallBollinger \/ CallKeltner \/ CallIchimoku
    \/ CallObv \/ CallMfi \/ CallVwap \/ CallVolumeProfile

LibrarySpec == LibInit /\ [][LibNext]_vars

(***************************************************************************)
(* Properties. The vocabulary below restates, from the specification's     *)
(* text, what a pass should give for the configuration and the frame.      *)
(***************************************************************************)
Computed == pc = "computed"

ReturnedDict == pc = "computed" /\ result.ret = "dict"

Keys == DOMAIN result.indicators

Calls == {result.calls[i] : i \in DOMAIN result.calls}

Called(key) == \E c \in Calls : c.key = key

CallGave(key, out) == \E c \in Calls : c.key = key /\ c.out = out

Diagnosed(name) == \E i \in DOMAIN result.diagnostics : result.diagnostics[i] = name

Range(s) == {s[i] : i \in DOMAIN s}

Rows == price_data.n

HasVolume == "volume" \in price_data.cols

\* family_period, e.g. sma_20.
ExpectedKey(family, window) == family \o "_" \o ToString(window)

ListActive(l) == l.some /\ l.val # <<>>

PeriodInstances(family, l) ==
    IF ListActive(l)
    THEN {[name |-> family, key |-> ExpectedKey(family, w), pre |-> Rows >= w]
            : w \in Range(l.val)}
    ELSE {}

SingleInstance(on, family, pre) ==
    IF on THEN {[name |-> family, key |-> family, pre |-> pre]} ELSE {}

Largest(t) == CHOOSE m \in Range(t) : \A x \in Range(t) : m >= x

\* The indicators the configuration asks for that the orchestrator computes,
\* each with the key it is stored under and its precondition on the frame.
ActiveInstances ==
    PeriodInstances("sma", config.sma)
    \cup PeriodInstances("ema", config.ema)
    \cup SingleInstance(config.macd, "macd", Rows >= config.macd_slow + config.macd_signal)
    \cup SingleInstance(config.rsi, "rsi", Rows >= config.rsi_length + 1)
    \cup SingleInstance(config.stochastic, "stochastic", Rows >= config.stoch_k + config.stoch_d)
    \cup SingleInstance(config.atr, "atr", Rows >= config.atr_length)
    \cup SingleInstance(config.adx, "adx", Rows >= config.adx_length)
    \cup SingleInstance(config.dmi, "dmi", Rows >= config.dmi_length)
    \cup SingleInstance(config.bbands, "bbands", Rows >= config.bb_length)
    \cup SingleInstance(config.keltner, "keltner", Rows >= config.kel_length)
    \cup SingleInstance(config.ichimoku, "ichimoku", Rows >= Largest(config.ichimoku_params))
    \cup SingleInstance(config.obv, "obv", HasVolume)
    \cup SingleInstance(config.vwap, "vwap", HasVolume)
    \cup SingleInstance(config.volume_profile, "volume_profile", HasVolume)
    \cup SingleInstance(config.mfi, "mfi", HasVolume /\ Rows >= config.mfi_length)

SkippedPeriods == {i \in ActiveInstances : i.name \in {"sma", "ema"} /\ ~i.pre}

\* C1: on a non-empty series (here one with all five columns)
\* every sma_w / ema_w with w > n is omitted without raising, and the mapping
\* holds a result for every other active indicator whose precondition is
\* satisfied.
C1_Original ==
    (Computed /\ obb_available /\ ~price_data.isNone /\ Rows >= 1
     /\ price_data.cols = Columns) =>
        /\ result.ret = "dict"
        /\ \A i \in SkippedPeriods : i.key \notin Keys
        /\ \A i \in ActiveInstances \ SkippedPeriods : i.pre => i.key \in Keys

C4_Gating ==
    ReturnedDict =>
        /\ \A k \in Keys : \E i \in ActiveInstances : i.key = k /\ i.pre
        /\ \A i \in ActiveInstances : ~i.pre => (~Called(i.key) /\ i.key \notin Keys)
        /\ \A c \in Calls : \E i \in ActiveInstances : i.key = c.key /\ i.pre
        /\ \A d \in Range(result.diagnostics) :
              \E c \in Calls : c.name = d /\ c.out = "raise"

\* One indicator was skipped for its precondition while another one, whose
\* precondition held, is in the mapping.
C4_Witness ==
    /\ ReturnedDict
    /\ \E i \in ActiveInstances : ~i.pre /\ i.name \notin {"sma", "ema"}
    /\ \E i \in ActiveInstances : i.pre /\ i.key \in Keys

\* C5: whatever the length and the columns of the price series and whatever
\* the configuration, get_technical_indicators returns (a mapping or None):
\* no exception reaches its caller.
C5_NeverRaises ==
    Computed => result.ret \in {"dict", "None"}

\* A pass on a frame with missing columns in which an indicator function
\* raised, and the pass returned its mapping.
C5_Witness ==
    /\ ReturnedDict
    /\ price_data.cols # Columns
    /\ \E c \in Calls : c.out = "raise"

\* C6: every key of the returned mapping is the family name of an active
\* single-parameter indicator, or family_period for a period of an active
\* sma/ema list; no key belongs to an indicator that is not active.
C6_KeyNaming ==
    ReturnedDict => \A k \in Keys : \E i \in ActiveInstances : i.key = k

\* The mapping holds a family_period key and a family-name key.
C6_Witness ==
    /\ ReturnedDict
    /\ \E i \in ActiveInstances : i.name \in {"sma", "ema"} /\ i.key \in Keys
    /\ \E i \in ActiveInstances : i.name \notin {"sma", "ema"} /\ i.key \in Keys

\* The computation of family_p on the frame succeeds whatever the provider
\* does.
OwnComputationSucceeds(family, w) ==
    \A p \in ProviderOutcomes :
        IF family = "sma" THEN _compute_sma(price_data, w, p) = "frame"
        ELSE _compute_ema(price_data, w, p) = "frame"

\* C7: every period p of an active sma/ema list with len(data) >= p whose
\* own computation succeeds has its key family_p in the mapping, whatever
\* happened to the periods before it in the list (here on series with all
\* five columns).
C7_Original ==
    (ReturnedDict /\ price_data.cols = Columns) =>
        \A i \in ActiveInstances :
            \A w \in Range(config.sma.val) \cup Range(config.ema.val) :
                ( /\ i.name \in {"sma", "ema"}
                  /\ i.key = ExpectedKey(i.name, w)
                  /\ Rows >= w
                  /\ OwnComputationSucceeds(i.name, w) )
                => i.key \in Keys

Present(name) == \E i \in DOMAIN active : active[i].name = name

ParamsOf(name) == active[CHOOSE i \in DOMAIN active : active[i].name = name].params

\* The family is listed if and only if `on`, and then with `params`.
Listed(name, on, params) ==
    /\ Present(name) <=> on
    /\ Present(name) => ParamsOf(name) = params

\* C8: get_active_indicators returns exactly the enabled indicators: a key
\* is present if and only if the family's toggle is true (for sma/ema, its
\* list is non-empty), once, with the parameters stored in the
\* configuration; nothing of a disabled family appears.
C8_ActiveExact ==
    (pc # "sidebar") =>
        /\ \A i, j \in DOMAIN active : active[i].name = active[j].name => i = j
        /\ Listed("sma", ListActive(config.sma), config.sma.val)
        /\ Listed("ema", ListActive(config.ema), config.ema.val)
        /\ Listed("ichimoku", config.ichimoku, config.ichimoku_params)
        /\ Listed("adx", config.adx, config.adx_length)
        /\ Listed("dmi", config.dmi, config.dmi_length)
        /\ Listed("rsi", config.rsi, config.rsi_length)
        /\ Listed("macd", config.macd,
                  <<config.macd_fast, config.macd_slow, config.macd_signal>>)
        /\ Listed("stochastic", config.stochastic,
                  <<config.stoch_k, config.stoch_d, config.stoch_smooth_k>>)
        /\ Listed("atr", config.atr, config.atr_length)
        /\ Listed("bbands", config.bbands, <<config.bb_length, config.bb_std>>)
        /\ Listed("keltner", config.keltner, <<config.kel_length, config.kel_mult>>)
        /\ Listed("obv", config.obv, TRUE)
        /\ Listed("mfi", config.mfi, config.mfi_length)
        /\ Listed("vwap", config.vwap, TRUE)
        /\ Listed("volume_profile", config.volume_profile, config.volume_profile_bins)
        /\ Listed("advance_decline", config.advance_decline, TRUE)
        /\ Listed("percent_above_ma", config.percent_above_ma, config.breadth_ma_length)
        /\ Len(active) <= 17

\* The active indicators of a configuration with enabled and disabled
\* families were listed, one of them with parameters that are no defaults.
C8_Witness ==
    \/ pc = "summary" /\ Present("ema") /\ Present("macd") /\ ~Present("rsi")
    \/ pc = "summary" /\ Present("macd") /\ config.macd_slow # 26

KnownPresets == {"minimal", "trend_follower", "mean_reversion", "intraday", "comprehensive"}

NothingEnabled(c) ==
    /\ ~c.sma.some /\ ~c.ema.some
    /\ ~c.ichimoku /\ ~c.adx /\ ~c.dmi /\ ~c.rsi /\ ~c.macd /\ ~c.stochastic
    /\ ~c.atr /\ ~c.bbands /\ ~c.keltner /\ ~c.obv /\ ~c.mfi /\ ~c.vwap
    /\ ~c.volume_profile /\ ~c.advance_decline /\ ~c.percent_above_ma

\* C9: from_preset with a name that is no preset gives the default
\* configuration, in which nothing is enabled, and its active indicators are
\* empty.
C9_UnknownPreset ==
    (origin.op = "from_preset" /\ origin.name \notin KnownPresets) =>
        /\ config = DefaultConfig
        /\ NothingEnabled(config)
        /\ (pc # "sidebar" => active = <<>>)

\* from_preset was called with a name that is no preset and the active
\* indicators of what it returned were listed.
C9_Witness ==
    origin.op = "from_preset" /\ origin.name = "nonexistent" /\ pc = "summary"

TrendFollower == origin.op = "from_preset" /\ origin.name = "trend_follower"

TrendKeys == {"ema_20", "ema_50", "ema_200", "adx", "macd"}

TrendActive ==
    /\ Len(active) = 3
    /\ Present("ema") /\ Present("adx") /\ Present("macd")
    /\ ParamsOf("ema") = <<20, 50, 200>>
    /\ ParamsOf("adx") = 14
    /\ ParamsOf("macd") = <<12, 26, 9>>

\* C10: the active indicators of the trend_follower preset are
\* exactly ema [20,50,200], adx 14, macd (12,26,9), and computing it on a
\* 300-row series (here one with all five columns) returns exactly the keys
\* ema_20, ema_50, ema_200, adx, macd.
C10_Original ==
    /\ (TrendFollower /\ pc # "sidebar") => TrendActive
    /\ (TrendFollower /\ Computed /\ obb_available /\ ~price_data.isNone
        /\ Rows = 300 /\ price_data.cols = Columns)
       => (result.ret = "dict" /\ Keys = TrendKeys)

\* The configuration the caller holds is an instance that came out of the
\* presets dictionary under this name.
HeldPreset(n) == origin.op \in {"from_preset", "edited"} /\ origin.name = n

\* C11: whatever from_preset calls and in-place edits of the returned
\* configurations came before, from_preset on a known name returns the fixed
\* value of that preset, the configuration a from_preset call just returned
\* has that value, and while the caller holds (and edits) the instance of one
\* preset the instances of the other presets keep their values.
C11_PresetsConstant ==
    /\ \A n \in KnownPresets : from_preset(n) = presets(n)
    /\ (origin.op = "from_preset" /\ origin.name \in KnownPresets)
          => config = presets(origin.name)
    /\ \A m, n \in KnownPresets :
          (HeldPreset(m) /\ n # m) => table[n] = presets(n)

\* A configuration returned by from_preset for a known name was edited in
\* place, its sma list included, and no longer has the preset's value.
C11_Witness ==
    /\ origin.op = "edited" /\ origin.name \in KnownPresets
    /\ config # presets(origin.name)
    /\ config.sma = List(<<5, 10>>)
    /\ config.adx /\ config.dmi /\ config.keltner

\* C12: any call of compute with the price series (here one with all five
\* columns) and the configuration of the call just made returns the mapping
\* that call returned: the same keys with the same values.
C12_Original ==
    (Computed /\ obb_available /\ ~price_data.isNone /\ price_data.cols = Columns) =>
        \A r \in get_technical_indicators(obb_available, config, price_data) :
            r.ret = result.ret /\ r.indicators = result.indicators

\* C13: a compute pass leaves the configuration as it was and the price
\* frame, after every indicator function called on it, with the rows and
\* columns it was fetched with.
C13_ReadOnlyInputs ==
    [][(pc = "summary" /\ pc' = "computed")
          => (config' = config /\ data_after' = price_data')]_vars

\* A pass called several indicator functions on a frame with all its columns
\* for a configuration with period lists.
C13_Witness ==
    /\ ReturnedDict
    /\ Len(result.calls) >= 3
    /\ price_data.cols = Columns
    /\ config.ema.some
    /\ data_after = price_data

\* Every call of the function of indicator a comes before every call of the
\* function of indicator b in the pass.
Before(a, b) ==
    \A i, j \in DOMAIN result.calls :
        (result.calls[i].name = a /\ result.calls[j].name = b) => i < j

AllFourActive == config.atr /\ config.dmi /\ config.adx /\ config.keltner

AllFourCalled == Called("atr") /\ Called("dmi") /\ Called("adx") /\ Called("keltner")

Closes == Column(bars, "close")

LocalOutput(fn) == output.fn = fn /\ output.local

RECURSIVE SumOver(_, _, _)
SumOver(s, lo, hi) == IF hi < lo THEN Num(0) ELSE Add(SumOver(s, lo, hi - 1), s[hi])

MeanOver(s, lo, hi) == Div(SumOver(s, lo, hi), Num(hi - lo + 1))

\* C17. Warm-up correctness: for a window w and a close series of length
\* n >= w, the SMA output is undefined at its first w - 1 indexes and at no
\* later one, and from the w-th index on it is the mean of the last w closes.
C17_SmaWarmUp ==
    LocalOutput("sma") =>
        LET w == output.args[1]
            n == Len(bars)
        IN  n >= w =>
                \A i \in 1..n :
                    IF i < w THEN IsNaN(output.cols.sma[i])
                    ELSE /\ IsNum(output.cols.sma[i])
                         /\ output.cols.sma[i] = MeanOver(Closes, i - w + 1, i)

\* A 4-point series smoothed over 2: one leading undefined value, and
\* means that move with the window.
C17_Witness ==
    /\ LocalOutput("sma")
    /\ output.args[1] = 2
    /\ Len(bars) = 4
    /\ IsNaN(output.cols.sma[1])
    /\ IsNum(output.cols.sma[2])
    /\ output.cols.sma[4] # output.cols.sma[3]

\* C20. EMA recurrence: the EMA output is defined at every index, its first
\* value is the first close, and every later value is
\* a * close[t] + (1 - a) * y[t-1] with a = 2 / (span + 1).
C20_Original ==
    LocalOutput("ema") =>
        LET span == output.args[1]
            a == Q(2, span + 1)
            y == output.cols.ema
        IN  \A t \in 1..Len(bars) :
                /\ IsNum(y[t])
                /\ t = 1 => y[t] = Closes[t]
                /\ t > 1 => y[t] = Add(Mul(a, Closes[t]), Mul(Sub(Num(1), a), y[t - 1]))

AvgLoss(i, window) == MeanOver(Losses(Diff(Closes)), i - window + 1, i)

AvgGain(i, window) == MeanOver(Gains(Diff(Closes)), i - window + 1, i)

\* C18. RSI division by zero: at every index from the window-th on where the
\* average loss is 0, the RSI is 100, also where the average gain is 0 too.
C18_Original ==
    LocalOutput("rsi") =>
        LET window == output.args[1]
        IN  \A i \in window..Len(bars) :
                AvgLoss(i, window) = Num(0) => output.cols.rsi[i] = Num(100)

StrictlyIncreasing(s) == \A i \in 1..(Len(s) - 1) : Gt(s[i + 1], s[i])

\* C19. RSI boundary: for a strictly increasing close series longer than the
\* window, the RSI is undefined at the first window - 1 indexes and 100 at
\* every later one.
C19_Original ==
    (LocalOutput("rsi") /\ StrictlyIncreasing(Closes) /\ Len(bars) > output.args[1]) =>
        \A i \in 1..Len(bars) :
            IF i < output.args[1] THEN IsNaN(output.cols.rsi[i])
            ELSE output.cols.rsi[i] = Num(100)

\* rolling_mean over `window` written out: undefined before the window-th
\* index, then the mean of the last `window` values.
MeanOfLast(s, i, window) == IF i < window THEN NaN ELSE MeanOver(s, i - window + 1, i)

NonPositiveCalls ==
    {c \in Calls : \E family \in {"sma", "ema"} :
        /\ c.name = family
        /\ \E w \in Range(config[family].val) : w <= 0 /\ c.key = ExpectedKey(family, w)}

\* C22. InvalidParameter is never downgraded: an indicator function invoked
\* with a window that is not positive raises, and the pass hands that
\* failure to its caller: no key, no None, no dictionary instead.
C22_Original ==
    Computed =>
        \A c \in NonPositiveCalls : c.out = "raise" /\ result.ret = "raise"

\* The keys of the mapping that belong to the indicator `name`.
KeysOf(name) ==
    {k \in Keys : \E inst \in ActiveInstances : inst.name = name /\ inst.key = k}

\* C25. Dispatch is exhaustive: every active indicator of the configuration
\* has a branch in the orchestrator's dispatch, and when its precondition
\* holds and its function returned an output, the mapping has a key for it.
C25_Original ==
    ReturnedDict =>
        \A i \in DOMAIN active :
            /\ active[i].name \in DispatchBranches
            /\ \A inst \in ActiveInstances :
                  (inst.name = active[i].name /\ inst.pre /\ CallGave(inst.key, "frame"))
                      => KeysOf(active[i].name) # {}

\* C26. No null entries: every value of a returned mapping is an output an
\* indicator function returned, and a function that returned None has no
\* key in it.
C26_NoNullEntries ==
    ReturnedDict =>
        /\ \A k \in Keys : result.indicators[k] = "DataFrame" /\ CallGave(k, "frame")
        /\ \A c \in Calls : c.out = "none" => c.key \notin Keys

\* A pass in which a function returned None under a satisfied precondition
\* while other indicators were stored.
C26_Witness ==
    /\ ReturnedDict
    /\ Keys # {}
    /\ result.diagnostics = <<>>
    /\ \E c \in Calls : c.out = "none" /\ c.key \notin Keys

\* The indicators whose function asks the external provider first.
ProviderFamilies ==
    {"sma", "ema", "rsi", "macd", "stochastic", "atr", "bbands", "keltner", "adx", "obv"}

AllPeriodsPositive == \A w \in Range(config.sma.val) \cup Range(config.ema.val) : w >= 1

\* C24. Provider fallback: on a series that has every column, with periods
\* that are all positive, the local formula of each of these indicators
\* succeeds where its length precondition holds, so whatever the provider
\* calls do, its key is in the mapping.
C24_Original ==
    (ReturnedDict /\ price_data.cols = Columns /\ AllPeriodsPositive) =>
        \A inst \in ActiveInstances :
            (inst.name \in ProviderFamilies /\ inst.pre) => inst.key \in Keys

\* None, or a list that is not empty and holds positive periods only.
AbsentOrPositive(l) ==
    ~l.some \/ (Len(l.val) > 0 /\ \A i \in DOMAIN l.val : l.val[i] > 0)

\* C28. Session configuration invariant: after any sequence of sidebar
\* passes, preset clicks and Clear All, the session configuration has sma
\* and ema each None or a non-empty list of positive periods; a pass whose
\* SMA (EMA) checkbox is off, or on with nothing selected, leaves sma (ema)
\* None; and Clear All leaves a configuration with no active indicator.
C28_SessionConfiguration ==
    /\ AbsentOrPositive(config.sma)
    /\ AbsentOrPositive(config.ema)
    /\ \A input \in SidebarInputs :
          /\ (~input.sma_enabled \/ input.sma_periods = <<>>)
                => create_indicator_sidebar(config, input).sma = None
          /\ (~input.ema_enabled \/ input.ema_periods = <<>>)
                => create_indicator_sidebar(config, input).ema = None
    /\ origin.op = "Clear All" => get_active_indicators(config) = <<>>

\* A preset was installed, edited in the sidebar (SMA switched off, EMA
\* left on with a selection, RSI ticked), and the session holds the result.
C28_Witness ==
    /\ origin = [op |-> "edited", name |-> "comprehensive"]
    /\ config.sma = None
    /\ config.ema = List(<<12, 26>>)
    /\ config.rsi
    /\ config.macd

\* The field names of IndicatorConfig in the order sorted() puts the items
\* of asdict(self) in: the names differ, so the values are never compared.
SortedFields ==
    <<"advance_decline", "adx", "adx_length", "atr", "atr_length",
      "bb_length", "bb_std", "bbands", "breadth_ma_length", "dmi",
      "dmi_length", "ema", "ichimoku", "ichimoku_params", "kel_length",
      "kel_mult", "keltner", "macd", "macd_fast", "macd_signal",
      "macd_slow", "mfi", "mfi_length", "obv", "percent_above_ma", "rsi",
      "rsi_length", "sma", "stoch_d", "stoch_k", "stoch_smooth_k",
      "stochastic", "volume_profile", "volume_profile_bins", "vwap">>

\* The value to_cache_key puts in the key for a period list: a tuple for a
\* list that is truthy, the value as it is (None, or the empty list) for
\* the others.
KeyOfPeriods(l) ==
    IF Truthy(l) THEN [kind |-> "tuple", val |-> l.val]
    ELSE IF l.some THEN [kind |-> "list", val |-> l.val]
    ELSE [kind |-> "None", val |-> <<>>]

\* IndicatorConfig.to_cache_key: tuple(sorted(config_dict.items())) of a
\* deep copy of the fields, the configuration itself left as it is.
to_cache_key(c) ==
    [i \in 1..Len(SortedFields) |->
        LET f == SortedFields[i]
        IN  IF f \in {"sma", "ema"} THEN <<f, KeyOfPeriods(c[f])>>
            ELSE <<f, c[f]>>]

\* hash(key) succeeds: no item of the key holds a list.
Hashable(key) ==
    \A i \in DOMAIN key :
        key[i][1] \in {"sma", "ema"} => key[i][2].kind # "list"

\* C29. Cache key: for every configuration, to_cache_key returns a hashable
\* tuple; configurations with equal field values give equal keys and
\* configurations whose field values differ give different keys.
C29_Original ==
    /\ Hashable(to_cache_key(config))
    /\ \A other \in ConfigsUpTo(MaxFamilies) :
          (to_cache_key(other) = to_cache_key(config)) <=> (other = config)

(***************************************************************************)
(* get_many_price_data called on its own. An item of the list is a string  *)
(* or some other value; the strings explored are two spellings of one      *)
(* symbol, a second symbol and a blank.                                    *)
(***************************************************************************)
MaxSymbols == 3

Str(t) == [str |-> TRUE, text |-> t]

NotStr == [str |-> FALSE, text |-> "42"]

SymbolItems == {Str("aapl"), Str("AAPL"), Str("msft"), Str(" "), NotStr}

RECURSIVE ListsUpTo(_, _)
ListsUpTo(items, n) ==
    IF n = 0 THEN {<<>>}
    ELSE LET less == ListsUpTo(items, n - 1)
         IN  less \cup {Append(l, x) : l \in less, x \in items}

\* str.upper() and str.strip() on the strings explored.
Upper(t) ==
    CASE t \in {"aapl", "AAPL"} -> "AAPL"
      [] t \in {"msft", "MSFT"} -> "MSFT"
      [] OTHER -> t

Strip(t) == IF t = " " THEN "" ELSE t

\* The strings explored in the order sorted() gives them.
SortedTexts == <<" ", "42", "AAPL", "MSFT", "aapl", "msft">>

\* What the provider answers for a symbol: a frame with rows, a frame
\* without rows, a frame without columns, or an exception (NoFrame). A
\* symbol the provider does not know makes it raise.
FetchAnswers == {Frame(5, Columns), Frame(0, Columns), Frame(5, {}), NoFrame}

Markets == [{"AAPL", "MSFT"} -> FetchAnswers]

Fetched(mk, sym) == IF sym \in DOMAIN mk THEN mk[sym] ELSE NoFrame

\* Variant that takes the strings as they are given:
\* tuple(sorted({s for s in symbols if isinstance(s, str)})).
symbols_tuple_as_given(syms) ==
    LET set == {syms[i].text : i \in {j \in DOMAIN syms : syms[j].str}}
    IN  SelectSeq(SortedTexts, LAMBDA t : t \in set)

\* tuple(sorted({s.upper() for s in symbols if isinstance(s, str) and s.strip()}))
symbols_tuple(syms) ==
    LET set == {Upper(syms[i].text) :
                   i \in {j \in DOMAIN syms : syms[j].str /\ Strip(syms[j].text) # ""}}
    IN  SelectSeq(SortedTexts, LAMBDA t : t \in set)

\* The loop of _load_many from symbol i of symbols_key on, `acc` holding the
\* results and the warnings so far. get_stock_price_data catches what the
\* provider raises and hands back a frame or None, so the try block of a
\* symbol does not raise.
RECURSIVE _load_many(_, _, _, _, _)
_load_many(symbols_key, mk, available, i, acc) ==
    IF i > Len(symbols_key) THEN acc
    ELSE LET sym == symbols_key[i]
             df == get_stock_price_data(available, Fetched(mk, sym))
             next == IF ~df.isNone /\ ~IsEmpty(df)
                     THEN [acc EXCEPT !.results = @ @@ (sym :> df)]
                     ELSE [acc EXCEPT !.warnings =
                                          Append(@, <<"No data available for", sym>>)]
         IN  _load_many(symbols_key, mk, available, i + 1, next)

get_many_price_data(syms, mk, available) ==
    _load_many(symbols_tuple(syms), mk, available, 1,
               [called |-> TRUE, results |-> <<>>, warnings |-> <<>>])

FetchInit ==
    /\ obb_available \in BOOLEAN
    /\ config = DefaultConfig
    /\ origin = [op |-> "IndicatorConfig", name |-> ""]
    /\ pc = "sidebar"
    /\ active = <<>>
    /\ price_data = NoFrame
    /\ result = NotRun
    /\ table = FreshPresets
    /\ data_after = NoFrame
    /\ bars = <<>>
    /\ output = NoOutput
    /\ symbols \in ListsUpTo(SymbolItems, MaxSymbols)
    /\ market \in Markets
    /\ many = NoMany

CallGetMany ==
    /\ ~many.called
    /\ many' = get_many_price_data(symbols, market, obb_available)
    /\ UNCHANGED <<symbols, market>>
    /\ UNCHANGED <<appvars, libvars>>

FetchNext == CallGetMany

FetchSpec == FetchInit /\ [][FetchNext]_vars

\* The upper-cased, de-duplicated, non-blank string symbols of a list.
SymbolsAsked(syms) ==
    {Upper(syms[i].text) :
        i \in {j \in DOMAIN syms : syms[j].str /\ Strip(syms[j].text) # ""}}

\* The same symbols in another order, in the other letter case, and repeated.
Reversed(syms) == [i \in 1..Len(syms) |-> syms[Len(syms) + 1 - i]]

OtherCase(syms) ==
    [i \in 1..Len(syms) |->
        IF ~syms[i].str THEN syms[i]
        ELSE CASE syms[i].text = "aapl" -> Str("AAPL")
               [] syms[i].text = "AAPL" -> Str("aapl")
               [] syms[i].text = "msft" -> Str("MSFT")
               [] OTHER -> syms[i]]

Respellings(syms) ==
    {Reversed(syms), OtherCase(syms), syms \o syms, syms \o Reversed(OtherCase(syms))}

\* C27. Multi-symbol fetch: the keys of the mapping get_many_price_data
\* returns are among the upper-cased, de-duplicated, non-blank string symbols
\* of the input; such a symbol is a key exactly when its price fetch gave a
\* frame with rows, whatever the fetches of the other symbols gave; and the
\* same symbols in another order, letter case or repetition give the same
\* mapping.
C27_MultiSymbolFetch ==
    many.called =>
        /\ DOMAIN many.results \subseteq SymbolsAsked(symbols)
        /\ \A sym \in SymbolsAsked(symbols) :
              sym \in DOMAIN many.results
                  <=> LET df == get_stock_price_data(obb_available, Fetched(market, sym))
                      IN  ~df.isNone /\ df.n > 0 /\ df.cols # {}
        /\ \A other \in Respellings(symbols) :
              get_many_price_data(other, market, obb_available).results = many.results

\* Three items, two spellings of one symbol whose fetch gives a frame and a
\* symbol whose fetch fails: the mapping holds the one key.
C27_Witness ==
    /\ many.called
    /\ symbols = <<Str("msft"), Str("aapl"), Str("AAPL")>>
    /\ obb_available
    /\ market["MSFT"] = NoFrame
    /\ DOMAIN many.results = {"AAPL"}

\* The call was given a frame without the volume column the function reads.
LacksVolume ==
    /\ output.fn \in {"obv", "mfi", "vwap", "volume_profile"}
    /\ output.volume = NoColumn

\* C23. Library-level InsufficientData: an indicator function called on a
\* series that lacks a column it requires (here: OBV, MFI, VWAP or Volume
\* Profile without volume), and whose result is not the provider's, fails
\* with an error; it never returns a null result.
C23_Original ==
    (LacksVolume /\ ~(output.fn = "obv" /\ output.status = "frame")) =>
        output.status = "raise"

\* lower <= mid <= upper in every row where the three values are defined.
Ordered(lower, mid, upper) ==
    \A i \in DOMAIN mid :
        (IsNum(lower[i]) /\ IsNum(mid[i]) /\ IsNum(upper[i]))
            => ~Gt(lower[i], mid[i]) /\ ~Gt(mid[i], upper[i])

BollingerOrdered ==
    LocalOutput("bbands") =>
        Ordered(output.cols.bb_lower, output.cols.bb_mid, output.cols.bb_upper)

KeltnerOrdered ==
    LocalOutput("keltner") =>
        Ordered(output.cols.kel_lower, output.cols.kel_mid, output.cols.kel_upper)

\* C30 as stated. Band ordering: for every series and every non-negative
\* multiplier, wherever the outputs are defined, bb_lower <= bb_mid <=
\* bb_upper and kel_lower <= kel_mid <= kel_upper, the latter also for bars
\* with high < low.
C30_Original == BollingerOrdered /\ KeltnerOrdered

\* C30, amended. Band ordering: for every series and every non-negative
\* multiplier, wherever the outputs are defined, bb_lower <= bb_mid <=
\* bb_upper; and kel_lower <= kel_mid <= kel_upper for every series whose
\* first bar has high >= low, whatever the later bars are (even high < low).
C30_BandOrdering ==
    /\ BollingerOrdered
    /\ bars[1].high >= bars[1].low => KeltnerOrdered

\* Keltner channels by the local formulas on a series whose second bar has
\* its high under its low, with a positive multiplier: the lines are defined
\* and apart in the second row.
C30_Witness ==
    /\ LocalOutput("keltner")
    /\ output.answer.p = "raise"
    /\ Len(bars) = 2
    /\ bars[1].high >= bars[1].low
    /\ bars[2] = InvertedBar
    /\ output.args[2] = Q(3, 2)
    /\ Gt(output.cols.kel_upper[2], output.cols.kel_mid[2])
    /\ Gt(output.cols.kel_mid[2], output.cols.kel_lower[2])

\* The names of the columns of the frame the call built.
ColumnNames == DOMAIN output.cols \ {"isNone"}

=============================================================================
